---------------------------- MODULE Spec2Model ----------------------------
(***************************************************************************)
(* Verification model of these parts of the library:                       *)
(*                                                                         *)
(*   1. YoYInflationCurveObserver, the lazily recalculated inflation curve *)
(*      (QuantExt/qle/termstructures/yoyinflationcurveobserver.hpp): its   *)
(*      constructor (SpecCtor), its operations (SpecCurve) and its reads   *)
(*      by several threads (SpecShared);                                   *)
(*   2. MidPointCdsEngineBase::calculate, the mid-point CDS engine         *)
(*      (SpecCds);                                                         *)
(*   3. the exact-discretization cache of XAssetStateProcess (SpecCache);  *)
(*   4. SimmConfiguration_ISDA_V2_3_8::group (SpecSimm);                   *)
(*   5. CommodityFutureConvention::build with checkContinuationMappings    *)
(*      (SpecConv).                                                        *)
(*                                                                         *)
(* Each part has its own specification over its own variables; the         *)
(* variables of the other parts keep their initial values.                 *)
(*                                                                         *)
(* Numbers.  The code computes in double precision.  The model computes    *)
(* in the integers, which are closed under the additions and products the  *)
(* code performs; a quotient is kept as the pair numerator/denominator     *)
(* (see Quot), so that a division by zero is visible as a zero denominator.*)
(***************************************************************************)
EXTENDS Integers, Sequences, FiniteSets, TLC

(***************************************************************************)
(* Bounds of the model.                                                    *)
(***************************************************************************)
\* number of curve nodes (the constructor requires more than one)
NumNodes == 2
\* quote values range over 0 .. MaxQuote
MaxQuote == 2
\* distance between two adjacent node times
TimeStep == 2
\* reads counted between two notifications
MaxReads == 3
\* update() calls are counted up to MaxCount
MaxCount == 2
\* longest CDS premium leg
MaxLeg == 2
\* length of a coupon period in days
Period == 2
\* the discount curve is discount(d) = DfBase - d
DfBase == 10
\* nominal of every coupon of the leg
CouponNominal == 1
\* 1 / basisPoint
BasisPointInv == 10000
\* entries the three caches of the state process hold together
MaxEntries == 2
\* the dates handed to the curve's constructor range over 0 .. MaxDate
MaxDate == 3
\* threads that read the shared curve
NumThreads == 2
\* groups of a SIMM group map, numbered from 0
NumGroups == 2
\* the From values of a continuation mapping range over 0 .. MaxFrom
MaxFrom == 1
\* the To values of a continuation mapping range over 0 .. MaxTo
MaxTo == 2

\* the children of a <Conventions> document
MaxNodes == 2

VARIABLES
    \* ---- YoYInflationCurveObserver, the constructor
    ctorInput,       \* the arguments of the last constructor call
    ctorStatus,      \* "none", "constructed", "failed", or how the call ended
    ctorError,       \* the message of the failed QL_REQUIRE
    ctorCurve,       \* dates_ and times_ of the constructed curve
    ctorQuoteReads,  \* quotes the call dereferenced before it ended
    \* ---- YoYInflationCurveObserver
    dates_,          \* YoYInflationCurveObserver::dates_
    quotes,          \* quotes_[i]->value(), the observed quotes
    times_,          \* InterpolatedCurve::times_
    data_,           \* InterpolatedCurve::data_
    interpolation_,  \* InterpolatedCurve::interpolation_ (Linear: the slopes)
    calculated_,     \* LazyObject::calculated_
    notified,        \* notifications the last operation sent to the curve's observers
    curveOp,         \* the last operation on the curve
    curveResult,     \* what the last read returned
    reads,           \* reads since the last update()
    recomputes,      \* performCalculations() runs since the last update()
    opRecomputes,    \* performCalculations() runs inside the last operation
    updates,         \* update() calls so far, counted up to MaxCount
    \* ---- threads reading the shared curve through yoyRateImpl(t)
    pc,              \* where each thread stands in yoyRateImpl
    rdTime,          \* the argument t of each thread
    rdIndex,         \* the loop variable i of performCalculations() in each thread
    rdResult,        \* what yoyRateImpl returned to each thread
    dirtyAtStart,    \* the curve was dirty when the threads started to read
    \* ---- MidPointCdsEngineBase
    cdsArgs,         \* the arguments and market data of the last calculate()
    cdsResults,      \* CreditDefaultSwap::results handed to calculate()
    cdsRaw,          \* the leg values as accumulated, before the side switch
    cdsStatus,       \* "reset", "done", "failed", or how the call ended
    \* ---- XAssetStateProcess::ExactDiscretization
    cache,           \* cache_m_, cache_d_, cache_v_: sets of [key, value]
    parametrization, \* the state of the model's parametrization
    cacheOp,         \* the last operation on the process
    cacheResult,     \* what the last query returned
    cacheHit,        \* the last query found its step in the cache
    cacheWasSeen,    \* the step of the last query had been asked for since the last flush
    cacheSeen,       \* the <<kind, step>> asked for since the last flush
    cacheFirst,      \* <<kind, step, value>>: what the first query of a step returned
    cacheStale,      \* "read": a query returned a value of an earlier parametrization;
                     \* "flushed": the last flushCache() came after such a query
    \* ---- SimmConfiguration_ISDA_V2_3_8::group
    simmQualifier,   \* the qualifier of the last lookup
    simmGroups,      \* the group map of the last lookup
    simmResult,      \* what the last lookup returned, or that it failed
    \* ---- CommodityFutureConvention::build
    convInput,       \* the members of the convention build() was called on
    convStatus,      \* "none", "built" or "failed"
    convError,       \* the message of the failed QL_REQUIRE
    \* ---- Conventions, the container of the conventions
    conventionsData, \* Conventions::data_, the map from id to convention
    conventionsCall, \* the last call on the container and how it ended
    \* ---- InflationSwapConvention written to XML and read back
    infConvention,   \* the convention toXML() is called on
    infNode,         \* the node toXML() returned
    infRead,         \* the convention fromXML() filled from that node
    infStatus,       \* "none", "built", "written", "read" or "failed"
    \* ---- CommodityFutureConvention::ProhibitedExpiry
    expiryArgs,      \* the arguments of the constructor, or the node read
    expiryObject,    \* the members of the object
    expiryStatus,    \* "none", "constructed" or "read"
    \* ---- ScenarioSimMarketParameters
    params_,         \* ScenarioSimMarketParameters::params_
    paramsCall,      \* the last setter called and its names
    paramsBefore     \* what the inspectors returned before that call

ctorVars == <<ctorInput, ctorStatus, ctorError, ctorCurve, ctorQuoteReads>>

curveVars == <<dates_, quotes, times_, data_, interpolation_, calculated_, notified,
               curveOp, curveResult, reads, recomputes, opRecomputes,
               updates>>

sharedVars == <<pc, rdTime, rdIndex, rdResult, dirtyAtStart>>

cdsVars == <<cdsArgs, cdsResults, cdsRaw, cdsStatus>>

cacheVars == <<cache, parametrization, cacheOp, cacheResult, cacheHit,
               cacheWasSeen, cacheSeen, cacheFirst, cacheStale>>

simmVars == <<simmQualifier, simmGroups, simmResult>>

convVars == <<convInput, convStatus, convError>>

registryVars == <<conventionsData, conventionsCall>>

inflationVars == <<infConvention, infNode, infRead, infStatus>>

expiryVars == <<expiryArgs, expiryObject, expiryStatus>>

paramsVars == <<params_, paramsCall, paramsBefore>>

configVars == <<registryVars, inflationVars, expiryVars, paramsVars>>

vars == <<ctorVars, curveVars, sharedVars, cdsVars, cacheVars, simmVars, convVars,
          configVars>>

(***************************************************************************)
(* YoYInflationCurveObserver                                               *)
(***************************************************************************)
Nodes == 1 .. NumNodes

QuoteValues == 0 .. MaxQuote

\* the times a read may ask for: the node range and one step of extrapolation
ReadTimes == 0 .. (NumNodes - 1) * TimeStep + 1

\* ---- the constructor
\* the dates a caller hands in, counted in days from the reference date
InputDates == 0 .. MaxDate

\* the day counters: Actual counts every day, Thirty360 counts the 31st of a
\* month as its 30th; the last date, MaxDate, is a 31st
DayCounters == {"Actual", "Thirty360"}

\* timeFromReference(d), in days
TimeFromReference(d, dc) ==
    IF dc = "Thirty360" /\ d = MaxDate THEN d - 1 ELSE d

\* the date left where it is
InflationPeriodSame(d) == d

\* inflationPeriod(d, frequency).first: a period is TimeStep days long
InflationPeriodStart(d) == d - (d % TimeStep)

\* lines 126-133: for an index that is not interpolated every date is pulled
\* back to the start of its inflation period
SnappedDates(in) ==
    IF ~in.indexIsInterpolated
    THEN [i \in 1 .. Len(in.dates) |-> InflationPeriodStart(in.dates[i])]
    ELSE in.dates

\* lines 144-145, 154: times_[i] = timeFromReference(dates_[i])
NodeTimes(ds, dc) == [i \in 1 .. Len(ds) |-> TimeFromReference(ds[i], dc)]

\* lines 140-142: data_ after resize() is the zero placeholder
PlaceholderData(ds) == [i \in 1 .. Len(ds) |-> 0]

\* lines 146-158: the message of the first requirement that fails from node
\* i on, "" when none fails
RECURSIVE NodeLoop(_, _, _)
NodeLoop(ds, dc, i) ==
    IF i > Len(ds) THEN ""
    ELSE IF ~(ds[i] > ds[i - 1]) THEN "dates not sorted"
    ELSE IF ~(PlaceholderData(ds)[i] > -1) THEN "zero inflation data < -100 %"
    ELSE IF TimeFromReference(ds[i], dc) = TimeFromReference(ds[i - 1], dc)
         THEN "two dates correspond to the same time"
    ELSE NodeLoop(ds, dc, i + 1)

NoCurve == [dates |-> <<>>, times |-> <<>>]

CtorFailed(message) == [status |-> "failed", error |-> message, curve |-> NoCurve]

\* lines 113-169: the body of the constructor
ConstructorBody(in) ==
    IF ~(Len(in.dates) > 1) THEN CtorFailed("too few dates")
    ELSE IF Len(in.rates) # Len(in.dates)
         THEN CtorFailed("quotes/dates count mismatch")
    ELSE IF NodeLoop(SnappedDates(in), in.dayCounter, 2) # ""
         THEN CtorFailed(NodeLoop(SnappedDates(in), in.dayCounter, 2))
    ELSE [status |-> "constructed", error |-> "",
          curve |-> [dates |-> SnappedDates(in),
                     times |-> NodeTimes(SnappedDates(in), in.dayCounter)]]

\* how a call ends that reads rates[0] of an empty vector and does not get
\* past it: the hardened library's bounds assertion aborts, or the read
\* through the vector's null begin() faults
OutOfBounds == {"assertion failed", "segmentation fault"}

\* lines 94-169: the constructor.  The initializer of the base class (line
\* 107) evaluates rates[0]->value() before the body runs; on an empty vector
\* that read is out of bounds, and the call ends there or goes on with
\* whatever it read.
ConstructOutcomes(in) ==
    {ConstructorBody(in)}
      \cup (IF Len(in.rates) = 0
            THEN {[status |-> u, error |-> "", curve |-> NoCurve] : u \in OutOfBounds}
            ELSE {})

\* ---- the inputs of the constructor
SeqsUpTo(S, n) == UNION {[1 .. k -> S] : k \in 0 .. n}

CtorInputs ==
    {[dates |-> ds, rates |-> [i \in 1 .. n |-> v],
      indexIsInterpolated |-> ip, dayCounter |-> dc] :
        ds \in SeqsUpTo(InputDates, NumNodes + 1), n \in 0 .. NumNodes + 1,
        v \in {-MaxQuote, -1, 0, MaxQuote}, ip \in BOOLEAN, dc \in DayCounters}

NoInput == [dates |-> <<>>, rates |-> <<>>, indexIsInterpolated |-> TRUE,
            dayCounter |-> "none"]

\* new YoYInflationCurveObserver(...)
Construct ==
    /\ ctorStatus = "none"
    /\ \E in \in CtorInputs :
         \E o \in ConstructOutcomes(in) :
            /\ ctorInput' = in
            /\ ctorStatus' = o.status
            /\ ctorError' = o.error
            /\ ctorCurve' = o.curve
            /\ ctorQuoteReads' = 1
    /\ UNCHANGED <<curveVars, sharedVars, cdsVars, cacheVars, simmVars, convVars, configVars>>

\* the result of the call is dropped
CtorDiscard ==
    /\ ctorStatus # "none"
    /\ ctorInput' = NoInput
    /\ ctorStatus' = "none"
    /\ ctorError' = ""
    /\ ctorCurve' = NoCurve
    /\ ctorQuoteReads' = 0
    /\ UNCHANGED <<curveVars, sharedVars, cdsVars, cacheVars, simmVars, convVars, configVars>>

InitCtor ==
    /\ ctorInput = NoInput
    /\ ctorStatus = "none"
    /\ ctorError = ""
    /\ ctorCurve = NoCurve
    /\ ctorQuoteReads = 0

NextCtor == Construct \/ CtorDiscard

\* the arguments the curve of SpecCurve was constructed from: one node per
\* inflation period, each dated one day into its period, index not
\* interpolated
CurveInput ==
    [dates |-> [i \in Nodes |-> (i - 1) * TimeStep + 1],
     rates |-> [i \in Nodes |-> 0],
     indexIsInterpolated |-> FALSE, dayCounter |-> "Actual"]

\* ---- the constructed curve
\* Interpolation::locate(x): the segment used for x, extrapolation allowed
Locate(x, xs) ==
    LET n == Len(xs)
        below == {i \in 1 .. n - 1 : xs[i] <= x}
    IN  IF below = {} THEN 1
        ELSE CHOOSE i \in below : \A j \in below : j <= i

\* Linear interpolation, update(): the slope of every segment, kept as the
\* pair <<dy, dx>>
LinearSlopes(xs, ys) ==
    [i \in 1 .. Len(xs) - 1 |-> <<ys[i + 1] - ys[i], xs[i + 1] - xs[i]>>]

\* Linear interpolation, value(x) = y[i] + (x - x[i]) * s[i].  The value is
\* returned multiplied by TimeStep to stay in the integers.
InterpValue(x, xs, ys, s) ==
    LET i == Locate(x, xs)
    IN  ys[i] * TimeStep + ((x - xs[i]) * s[i][1] * TimeStep) \div s[i][2]

\* the value a curve built on the quote values qs has at time t
FreshValue(t, xs, qs) == InterpValue(t, xs, qs, LinearSlopes(xs, qs))

\* performCalculations(): copy the quotes into data_, rebuild the interpolation
PerformCalculations(qs, xs) ==
    [data |-> [i \in Nodes |-> qs[i]],
     interpolation |-> LinearSlopes(xs, [i \in Nodes |-> qs[i]])]

\* LazyObject::calculate(): performCalculations() iff not calculated
CalculateAlways(calc) == TRUE

MustCalculate(calc) == ~calc

\* the curve's state after calculate()
Calculated ==
    IF MustCalculate(calculated_)
    THEN PerformCalculations(quotes, times_)
    ELSE [data |-> data_, interpolation |-> interpolation_]

\* calculate() as the first statement of a read
Calculate ==
    /\ data_' = Calculated.data
    /\ interpolation_' = Calculated.interpolation
    /\ calculated_' = TRUE
    /\ opRecomputes' = IF MustCalculate(calculated_) THEN 1 ELSE 0
    /\ recomputes' = recomputes + opRecomputes'
    /\ reads' = reads + 1
    /\ notified' = 0
    /\ UNCHANGED <<dates_, quotes, times_, updates>>
    /\ UNCHANGED <<ctorVars, sharedVars, cdsVars, cacheVars, simmVars, convVars, configVars>>

\* yoyRateImpl(t)
YoyRateImpl(t) ==
    /\ reads < MaxReads
    /\ Calculate
    /\ curveOp' = <<"yoyRateImpl", t>>
    /\ curveResult' = <<InterpValue(t, times_, data_', interpolation_')>>

\* data()
Data ==
    /\ reads < MaxReads
    /\ Calculate
    /\ curveOp' = <<"data">>
    /\ curveResult' = data_'

\* rates()
Rates ==
    /\ reads < MaxReads
    /\ Calculate
    /\ curveOp' = <<"rates">>
    /\ curveResult' = data_'

\* nodes(): the node times stand for the node dates
NodesRead ==
    /\ reads < MaxReads
    /\ Calculate
    /\ curveOp' = <<"nodes">>
    /\ curveResult' = [i \in Nodes |-> <<times_[i], data_'[i]>>]

\* baseDate()
BaseDate ==
    /\ reads < MaxReads
    /\ Calculate
    /\ curveOp' = <<"baseDate">>
    /\ curveResult' = <<times_[1]>>

\* update(), eager variant: recalculates at once
UpdateEager(qs) ==
    [calculated |-> TRUE,
     data |-> PerformCalculations(qs, times_).data,
     interpolation |-> PerformCalculations(qs, times_).interpolation,
     ran |-> 1,
     notified |-> (IF calculated_ THEN 1 ELSE 0) + 1]

\* update(), variant that forgets to mark the curve dirty
UpdateKeepsFlag(qs) ==
    [calculated |-> calculated_,
     data |-> data_,
     interpolation |-> interpolation_,
     ran |-> 0,
     notified |-> (IF calculated_ THEN 1 ELSE 0) + 1]

\* update() made of LazyObject::update() alone: a dirty curve stays silent
UpdateLazyObjectOnly(qs) ==
    [calculated |-> FALSE,
     data |-> data_,
     interpolation |-> interpolation_,
     ran |-> 0,
     notified |-> IF calculated_ THEN 1 ELSE 0]

\* update(): LazyObject::update() marks the curve dirty and forwards the
\* notification if the curve was calculated; YoYInflationTermStructure::update()
\* (TermStructure::update()) notifies the observers.  qs are the quote values
\* at the moment of the call.
UpdateEffect(qs) ==
    [calculated |-> FALSE,
     data |-> data_,
     interpolation |-> interpolation_,
     ran |-> 0,
     notified |-> (IF calculated_ THEN 1 ELSE 0) + 1]

UpdateStep(qs) ==
    /\ calculated_' = UpdateEffect(qs).calculated
    /\ data_' = UpdateEffect(qs).data
    /\ interpolation_' = UpdateEffect(qs).interpolation
    /\ opRecomputes' = UpdateEffect(qs).ran
    /\ recomputes' = UpdateEffect(qs).ran
    /\ notified' = UpdateEffect(qs).notified
    /\ reads' = 0
    /\ curveResult' = <<>>
    /\ updates' = IF updates < MaxCount THEN updates + 1 ELSE updates
    /\ UNCHANGED <<dates_, times_>>
    /\ UNCHANGED <<ctorVars, sharedVars, cdsVars, cacheVars, simmVars, convVars, configVars>>

\* a quote changes its value and notifies its observers: the curve registered
\* with every quote, so update() runs
SetQuote(i, v) ==
    /\ v # quotes[i]
    /\ quotes' = [quotes EXCEPT ![i] = v]
    /\ UpdateStep(quotes')
    /\ curveOp' = <<"setQuote", i>>

\* update() without a change of value (a relinked handle, a repeated notification)
Update ==
    /\ UNCHANGED quotes
    /\ UpdateStep(quotes)
    /\ curveOp' = <<"update">>

\* the curve after construction: data_ is the zero placeholder, the
\* interpolation is built on it, nothing is calculated
InitCurve ==
    /\ dates_ = ConstructorBody(CurveInput).curve.dates
    /\ quotes \in [Nodes -> QuoteValues]
    /\ times_ = [i \in Nodes |-> (i - 1) * TimeStep]
    /\ data_ = [i \in Nodes |-> 0]
    /\ interpolation_ = LinearSlopes(times_, data_)
    /\ calculated_ = FALSE
    /\ notified = 0
    /\ curveOp = <<"constructed">>
    /\ curveResult = <<>>
    /\ reads = 0
    /\ recomputes = 0
    /\ opRecomputes = 0
    /\ updates = 0

NextCurve ==
    \/ \E t \in ReadTimes : YoyRateImpl(t)
    \/ Data
    \/ Rates
    \/ NodesRead
    \/ BaseDate
    \/ \E i \in Nodes, v \in QuoteValues : SetQuote(i, v)
    \/ Update

(***************************************************************************)
(* YoYInflationCurveObserver shared by threads that call yoyRateImpl(t).   *)
(* A thread runs calculate() and the interpolation one memory access at a  *)
(* time; the code takes no lock.                                           *)
(***************************************************************************)
Threads == 1 .. NumThreads

\* the times the threads ask for: the first and the last node
SharedReadTimes == {0, (NumNodes - 1) * TimeStep}

\* what a thread step leaves alone
ReaderFrame ==
    /\ UNCHANGED <<dates_, quotes, times_, notified, curveOp, curveResult,
                   reads, recomputes, opRecomputes, updates, dirtyAtStart>>
    /\ UNCHANGED <<ctorVars, cdsVars, cacheVars, simmVars, convVars, configVars>>

\* the threads enter yoyRateImpl(t), each with its own t
ReaderStart ==
    /\ \A th \in Threads : pc[th] = "idle"
    /\ pc' = [th \in Threads |-> "test"]
    /\ rdTime' \in [Threads -> SharedReadTimes]
    /\ dirtyAtStart' = ~calculated_
    /\ UNCHANGED <<rdIndex, rdResult, calculated_, data_, interpolation_>>
    /\ UNCHANGED <<dates_, quotes, times_, notified, curveOp, curveResult,
                   reads, recomputes, opRecomputes, updates>>
    /\ UNCHANGED <<ctorVars, cdsVars, cacheVars, simmVars, convVars, configVars>>

\* LazyObject::calculate(): if (!calculated_ ...)
ReaderTest(th) ==
    /\ pc[th] = "test"
    /\ pc' = [pc EXCEPT ![th] = IF MustCalculate(calculated_) THEN "flag" ELSE "value"]
    /\ UNCHANGED <<rdTime, rdIndex, rdResult, calculated_, data_, interpolation_>>
    /\ ReaderFrame

\* LazyObject::calculate(): calculated_ = true, before performCalculations()
ReaderSetFlag(th) ==
    /\ pc[th] = "flag"
    /\ calculated_' = TRUE
    /\ pc' = [pc EXCEPT ![th] = "copy"]
    /\ rdIndex' = [rdIndex EXCEPT ![th] = 1]
    /\ UNCHANGED <<rdTime, rdResult, data_, interpolation_>>
    /\ ReaderFrame

\* performCalculations(), lines 241-242: data_[i] = quotes_[i]->value()
ReaderCopy(th) ==
    /\ pc[th] = "copy"
    /\ data_' = [data_ EXCEPT ![rdIndex[th]] = quotes[rdIndex[th]]]
    /\ rdIndex' = [rdIndex EXCEPT ![th] = @ + 1]
    /\ pc' = [pc EXCEPT ![th] = IF rdIndex[th] < NumNodes THEN "copy" ELSE "interpolate"]
    /\ UNCHANGED <<rdTime, rdResult, calculated_, interpolation_>>
    /\ ReaderFrame

\* performCalculations(), lines 243-247: the interpolation is rebuilt on data_
ReaderInterpolate(th) ==
    /\ pc[th] = "interpolate"
    /\ interpolation_' = LinearSlopes(times_, data_)
    /\ pc' = [pc EXCEPT ![th] = "value"]
    /\ UNCHANGED <<rdTime, rdIndex, rdResult, calculated_, data_>>
    /\ ReaderFrame

\* yoyRateImpl, line 194: return this->interpolation_(t, true)
ReaderValue(th) ==
    /\ pc[th] = "value"
    /\ rdResult' = [rdResult EXCEPT ![th] =
                       <<InterpValue(rdTime[th], times_, data_, interpolation_)>>]
    /\ pc' = [pc EXCEPT ![th] = "done"]
    /\ UNCHANGED <<rdTime, rdIndex, calculated_, data_, interpolation_>>
    /\ ReaderFrame

\* a read made by one thread before the curve is shared
ReadBeforeSharing ==
    /\ \A th \in Threads : pc[th] = "idle"
    /\ Data

\* the memory a thread writes with its next step
ReaderWrites(th) ==
    CASE pc[th] = "flag" -> {<<"calculated_", 0>>}
      [] pc[th] = "copy" -> {<<"data_", rdIndex[th]>>}
      [] pc[th] = "interpolate" -> {<<"interpolation_", 0>>}
      [] OTHER -> {}

\* the memory a thread reads with its next step
ReaderReads(th) ==
    CASE pc[th] = "test" -> {<<"calculated_", 0>>}
      [] pc[th] = "interpolate" -> {<<"data_", i>> : i \in Nodes}
      [] pc[th] = "value" -> {<<"interpolation_", 0>>} \cup {<<"data_", i>> : i \in Nodes}
      [] OTHER -> {}

\* two threads stand before accesses to the same memory, one of them a
\* write, with nothing that orders them
DataRace ==
    \E a, b \in Threads :
       /\ a # b
       /\ ReaderWrites(a) \cap (ReaderReads(b) \cup ReaderWrites(b)) # {}

InitShared ==
    /\ pc = [th \in Threads |-> "idle"]
    /\ rdTime = [th \in Threads |-> 0]
    /\ rdIndex = [th \in Threads |-> 0]
    /\ rdResult = [th \in Threads |-> <<>>]
    /\ dirtyAtStart = FALSE

NextShared ==
    \/ ReadBeforeSharing
    \/ ReaderStart
    \/ \E th \in Threads : ReaderTest(th)
    \/ \E th \in Threads : ReaderSetFlag(th)
    \/ \E th \in Threads : ReaderCopy(th)
    \/ \E th \in Threads : ReaderInterpolate(th)
    \/ \E th \in Threads : ReaderValue(th)

(***************************************************************************)
(* MidPointCdsEngineBase::calculate                                        *)
(***************************************************************************)
\* a Real that holds a number
Val(x) == [null |-> FALSE, num |-> x, den |-> 1]

\* Null<Real>(), Null<Rate>(): the sentinel
NullReal == [null |-> TRUE, num |-> 0, den |-> 1]

\* the quotient a / b as computed by the code; den = 0 is a division by zero
Quot(a, b) == [null |-> FALSE, num |-> a, den |-> b]

\* (d2 - d1) / 2 on dates: integer division, truncating towards zero
HalfDays(n) == IF n >= 0 THEN n \div 2 ELSE -((-n) \div 2)

\* CashFlow::hasOccurred(settlementDate, includeSettlementDateFlows_)
HasOccurred(date, a) ==
    IF a.includeSettlementDateFlows
    THEN date < a.settlementDate
    ELSE date <= a.settlementDate

\* discountCurve_->discount(d)
Discount(d) == DfBase - d

\* survivalProbability(d): the name defaults at a.defaultTime
SurvivalProbability(d, a) == IF d < a.defaultTime THEN 1 ELSE 0

\* defaultProbability(d1, d2)
DefaultProbability(d1, d2, a) ==
    SurvivalProbability(d1, a) - SurvivalProbability(d2, a)

\* expectedLoss with the claim amount taken as the whole notional
ExpectedLossNoRecovery(defaultDate, d1, d2, notional, a) ==
    notional * DefaultProbability(d1, d2, a)

\* MidPointCdsEngine::expectedLoss: claim->amount(...) * defaultProbability(d1, d2)
\* with a face value claim, notional * (1 - recoveryRate)
ExpectedLoss(defaultDate, d1, d2, notional, a) ==
    notional * (1 - a.recoveryRate) * DefaultProbability(d1, d2, a)

\* Coupon::accruedAmount(d) of a fixed rate coupon
AccruedAmount(cf, d) ==
    IF d <= cf.accrualStartDate \/ d > cf.date
    THEN 0
    ELSE cf.nominal * cf.rate *
         ((IF d < cf.accrualEndDate THEN d ELSE cf.accrualEndDate)
              - cf.accrualStartDate)

\* the results structure before calculate(): results.reset()
ResetResults ==
    [upfrontNPV |-> NullReal, accrualRebateNPV |-> NullReal,
     accrualRebateNPVCurrent |-> NullReal, couponLegNPV |-> NullReal,
     defaultLegNPV |-> NullReal, value |-> NullReal,
     fairSpreadDirty |-> NullReal, fairSpreadClean |-> NullReal,
     fairUpfront |-> NullReal, couponLegBPS |-> NullReal,
     upfrontBPS |-> NullReal, additionalResults |-> <<>>]

\* lines 77-84: the discount factor of an upfront payment that has not occurred
UpfPVO1(a) ==
    IF a.upfrontPayment.set /\ ~HasOccurred(a.upfrontPayment.date, a)
    THEN Discount(a.upfrontPayment.date)
    ELSE 0

\* lines 86-97: the NPV of an accrual rebate that has not occurred
RebateNPV(rebate, a) ==
    IF rebate.set /\ ~HasOccurred(rebate.date, a)
    THEN Discount(rebate.date) * rebate.amount
    ELSE 0

\* lines 118-124: the dates of the i-th cash flow of the leg
EffectiveStartDate(a, i) ==
    LET startDate == IF i = 1 THEN a.protectionStart
                     ELSE a.leg[i].accrualStartDate
    IN  IF startDate <= a.today /\ a.today <= a.leg[i].accrualEndDate
        THEN a.today
        ELSE startDate

DefaultDate(a, i) ==
    EffectiveStartDate(a, i)
        + HalfDays(a.leg[i].accrualEndDate - EffectiveStartDate(a, i))

\* lines 129-138
ProtectionPaymentDate(a, i) ==
    CASE a.protectionPaymentTime = "atDefault" -> DefaultDate(a, i)
      [] a.protectionPaymentTime = "atPeriodEnd" -> a.leg[i].date
      [] a.protectionPaymentTime = "atMaturity" -> a.maturity
      [] OTHER -> -1

\* lines 140-158: what the i-th cash flow adds
Accumulate(a, i, acc) ==
    LET cf == a.leg[i]
        S == SurvivalProbability(cf.date, a)
        P == DefaultProbability(EffectiveStartDate(a, i), cf.accrualEndDate, a)
        ppd == ProtectionPaymentDate(a, i)
        midpointDiscount == Discount(ppd)
        expectLoss == ExpectedLoss(DefaultDate(a, i), EffectiveStartDate(a, i),
                                   cf.accrualEndDate, cf.nominal, a)
    IN  [acc EXCEPT
           !.couponLegNPV = @ + S * cf.amount * Discount(cf.date)
                + (IF a.settlesAccrual
                   THEN P * AccruedAmount(cf, DefaultDate(a, i)) * Discount(ppd)
                   ELSE 0),
           !.defaultLegNPV = @ + expectLoss * midpointDiscount,
           !.protectionPaymentDates = Append(@, ppd),
           !.midpointDiscounts = Append(@, midpointDiscount),
           !.expectedLosses = Append(@, expectLoss),
           !.defaultProbabilities = Append(@, P)]

\* the loop over the leg without the test of line 108: cash flows that have
\* occurred are accumulated like the others
RECURSIVE LegLoopNoSkip(_, _, _)
LegLoopNoSkip(a, i, acc) ==
    IF i > Len(a.leg) THEN acc
    ELSE IF ~a.leg[i].isCoupon
         THEN [acc EXCEPT !.error = "expected coupon"]
    ELSE IF a.protectionPaymentTime \notin {"atDefault", "atPeriodEnd", "atMaturity"}
         THEN [acc EXCEPT !.error = "protectionPaymentTime not handled"]
    ELSE LegLoopNoSkip(a, i + 1, Accumulate(a, i, acc))

\* lines 107-159: the loop over the leg, from its i-th cash flow on
RECURSIVE LegLoop(_, _, _)
LegLoop(a, i, acc) ==
    IF i > Len(a.leg) THEN acc
    ELSE IF HasOccurred(a.leg[i].date, a) THEN LegLoop(a, i + 1, acc)
    ELSE IF ~a.leg[i].isCoupon
         THEN [acc EXCEPT !.error = "expected coupon"]
    ELSE IF a.protectionPaymentTime \notin {"atDefault", "atPeriodEnd", "atMaturity"}
         THEN [acc EXCEPT !.error = "protectionPaymentTime not handled"]
    ELSE LegLoop(a, i + 1, Accumulate(a, i, acc))

\* lines 72-165: the raw accumulation
RawLegs(a) ==
    LegLoop(a, 1,
            [error |-> "",
             upfrontNPV |-> UpfPVO1(a) * a.upfrontPayment.amount,
             accrualRebateNPV |-> RebateNPV(a.accrualRebate, a),
             accrualRebateNPVCurrent |-> RebateNPV(a.accrualRebateCurrent, a),
             couponLegNPV |-> 0,
             defaultLegNPV |-> 0,
             protectionPaymentDates |-> <<>>,
             midpointDiscounts |-> <<>>,
             expectedLosses |-> <<>>,
             defaultProbabilities |-> <<>>])

\* the side switch with the seller's default leg left positive
SideSwitchNoDefaultFlip(raw, side) ==
    CASE side = "Seller" ->
           [raw EXCEPT !.accrualRebateNPV = -@,
                       !.accrualRebateNPVCurrent = -@]
      [] side = "Buyer" ->
           [raw EXCEPT !.couponLegNPV = -@, !.upfrontNPV = -@]
      [] OTHER -> [raw EXCEPT !.error = "unknown protection side"]

\* the side switch with the buyer's upfront left positive
SideSwitchNoUpfrontFlip(raw, side) ==
    CASE side = "Seller" ->
           [raw EXCEPT !.defaultLegNPV = -@,
                       !.accrualRebateNPV = -@,
                       !.accrualRebateNPVCurrent = -@]
      [] side = "Buyer" ->
           [raw EXCEPT !.couponLegNPV = -@]
      [] OTHER -> [raw EXCEPT !.error = "unknown protection side"]

\* lines 166-180: the side switch
SideSwitch(raw, side) ==
    CASE side = "Seller" ->
           [raw EXCEPT !.defaultLegNPV = -@,
                       !.accrualRebateNPV = -@,
                       !.accrualRebateNPVCurrent = -@]
      [] side = "Buyer" ->
           [raw EXCEPT !.couponLegNPV = -@, !.upfrontNPV = -@]
      [] OTHER -> [raw EXCEPT !.error = "unknown protection side"]

UpfrontSign(side) == IF side = "Buyer" THEN -1 ELSE 1

\* lines 185-193: a fair spread; the guard is on couponLegNPV alone
FairSpread(legNPV, rebateNPV, defaultLegNPV, spread) ==
    IF legNPV # 0
    THEN Quot(-defaultLegNPV * spread, legNPV + rebateNPV)
    ELSE NullReal

\* lines 195-201, without the guard on the sign of the sensitivity
FairUpfrontNoSign(a, s) ==
    IF UpfPVO1(a) * a.notional # 0
    THEN Quot(-UpfrontSign(a.side)
                 * (s.defaultLegNPV + s.couponLegNPV + s.accrualRebateNPV),
              UpfPVO1(a) * a.notional)
    ELSE NullReal

\* lines 195-201: the fair upfront
FairUpfront(a, s) ==
    IF UpfPVO1(a) * a.notional > 0
    THEN Quot(-UpfrontSign(a.side)
                 * (s.defaultLegNPV + s.couponLegNPV + s.accrualRebateNPV),
              UpfPVO1(a) * a.notional)
    ELSE NullReal

\* lines 205-209, without the guard
CouponLegBPSUnguarded(a, s) == Quot(s.couponLegNPV, BasisPointInv * a.spread)

\* lines 205-209: couponLegNPV * basisPoint / spread
CouponLegBPS(a, s) ==
    IF a.spread # 0
    THEN Quot(s.couponLegNPV, BasisPointInv * a.spread)
    ELSE NullReal

\* lines 211-215: upfrontNPV * basisPoint / upfront
UpfrontBPS(a, s) ==
    IF a.upfront.set /\ a.upfront.value # 0
    THEN Quot(s.upfrontNPV, BasisPointInv * a.upfront.value)
    ELSE NullReal

\* the results as written when the loop over the leg fails (lines 79-112)
ResultsAtLoopFailure(raw) ==
    [ResetResults EXCEPT
       !.upfrontNPV = Val(raw.upfrontNPV),
       !.accrualRebateNPV = Val(raw.accrualRebateNPV),
       !.accrualRebateNPVCurrent = Val(raw.accrualRebateNPVCurrent),
       !.couponLegNPV = Val(raw.couponLegNPV),
       !.defaultLegNPV = Val(raw.defaultLegNPV)]

\* the audit vectors with the default probabilities left out
AuditVectorsWithoutProbabilities(raw) ==
    [protectionPaymentDates |-> raw.protectionPaymentDates,
     midpointDiscounts |-> raw.midpointDiscounts,
     expectedLosses |-> raw.expectedLosses,
     defaultProbabilities |-> <<>>]

\* the audit vectors, lines 161-164
AuditVectors(raw) ==
    [protectionPaymentDates |-> raw.protectionPaymentDates,
     midpointDiscounts |-> raw.midpointDiscounts,
     expectedLosses |-> raw.expectedLosses,
     defaultProbabilities |-> raw.defaultProbabilities]

\* the results as written when the side switch fails (lines 79-179)
ResultsAtSideFailure(raw) ==
    [ResultsAtLoopFailure(raw) EXCEPT !.additionalResults = AuditVectors(raw)]

\* the value with the rebate of the current period in place of the rebate
ValueWithCurrentRebate(s) ==
    s.defaultLegNPV + s.couponLegNPV + s.upfrontNPV + s.accrualRebateNPVCurrent

\* line 182: results.value, the sum of the four signed components
Value(s) ==
    s.defaultLegNPV + s.couponLegNPV + s.upfrontNPV + s.accrualRebateNPV

\* the results as written at line 215
ResultsAtEnd(a, raw) ==
    LET s == SideSwitch(raw, a.side)
    IN  [upfrontNPV |-> Val(s.upfrontNPV),
         accrualRebateNPV |-> Val(s.accrualRebateNPV),
         accrualRebateNPVCurrent |-> Val(s.accrualRebateNPVCurrent),
         couponLegNPV |-> Val(s.couponLegNPV),
         defaultLegNPV |-> Val(s.defaultLegNPV),
         value |-> Val(Value(s)),
         fairSpreadDirty |-> FairSpread(s.couponLegNPV, s.accrualRebateNPV,
                                        s.defaultLegNPV, a.spread),
         fairSpreadClean |-> FairSpread(s.couponLegNPV, s.accrualRebateNPVCurrent,
                                        s.defaultLegNPV, a.spread),
         fairUpfront |-> FairUpfront(a, s),
         couponLegBPS |-> CouponLegBPS(a, s),
         upfrontBPS |-> UpfrontBPS(a, s),
         additionalResults |-> AuditVectors(raw)]

\* how a call ends that dereferences the null upfrontPayment at line 217:
\* the pointer's assertion aborts, or the read through the null pointer faults
NullDereference == {"assertion failed", "segmentation fault"}

\* MidPointCdsEngineBase::calculate, lines 72-230: the sets of what the call
\* can leave behind, as [status, results, raw]
CalculateOutcomes(a) ==
    LET raw == RawLegs(a)
    IN  IF raw.error # ""
        THEN {[status |-> "failed", error |-> raw.error,
               results |-> ResultsAtLoopFailure(raw), raw |-> raw]}
        ELSE IF SideSwitch(raw, a.side).error # ""
        THEN {[status |-> "failed", error |-> SideSwitch(raw, a.side).error,
               results |-> ResultsAtSideFailure(raw), raw |-> raw]}
        ELSE IF ~a.upfrontPayment.set
        THEN {[status |-> u, error |-> "",
               results |-> ResultsAtEnd(a, raw), raw |-> raw]
                 : u \in NullDereference}
        ELSE {[status |-> "done", error |-> "",
               results |-> [ResultsAtEnd(a, raw) EXCEPT
                   !.additionalResults =
                       [upfrontPremium |-> a.upfrontPayment.amount] @@ @],
               raw |-> raw]}

\* ---- the inputs
NullPtr == [set |-> FALSE, amount |-> 0, date |-> 0]

CashFlowAt(amount, date) == [set |-> TRUE, amount |-> amount, date |-> date]

None == [set |-> FALSE, value |-> 0]

Some(x) == [set |-> TRUE, value |-> x]

\* the k-th cash flow of a leg: a fixed rate coupon over the k-th period, or
\* a simple cash flow at the end of that period
LegCashFlow(k, isCoupon) ==
    [isCoupon |-> isCoupon,
     date |-> k * Period,
     accrualStartDate |-> (k - 1) * Period,
     accrualEndDate |-> k * Period,
     nominal |-> CouponNominal,
     rate |-> 1,
     amount |-> CouponNominal * Period]

Legs ==
    UNION {{[k \in 1 .. n |-> LegCashFlow(k, c[k])] : c \in [1 .. n -> BOOLEAN]}
              : n \in 0 .. MaxLeg}

\* upfront rate and upfront payment
UpfrontSetups ==
    {[upfront |-> None, upfrontPayment |-> NullPtr],
     [upfront |-> None, upfrontPayment |-> CashFlowAt(0, 1)],
     [upfront |-> Some(0), upfrontPayment |-> CashFlowAt(0, 1)],
     [upfront |-> Some(1), upfrontPayment |-> CashFlowAt(3, 1)]}

\* accrual rebate and current accrual rebate, paid with the first coupon
RebateSetups ==
    {[accrualRebate |-> NullPtr, accrualRebateCurrent |-> NullPtr],
     [accrualRebate |-> CashFlowAt(CouponNominal * Period, Period),
      accrualRebateCurrent |-> CashFlowAt(CouponNominal, Period)]}

\* evaluation date, reference date of the discount curve, protection start
DateSetups ==
    {[today |-> 0, settlementDate |-> 0, protectionStart |-> 0],
     [today |-> 1, settlementDate |-> 1, protectionStart |-> 0],
     [today |-> 1, settlementDate |-> Period, protectionStart |-> 1]}

CdsArguments ==
    {[side |-> side, protectionPaymentTime |-> ppt, settlesAccrual |-> acc,
      spread |-> spread, notional |-> notional,
      upfront |-> u.upfront, upfrontPayment |-> u.upfrontPayment,
      accrualRebate |-> r.accrualRebate,
      accrualRebateCurrent |-> r.accrualRebateCurrent,
      leg |-> leg, maturity |-> MaxLeg * Period,
      today |-> d.today, settlementDate |-> d.settlementDate,
      protectionStart |-> d.protectionStart,
      includeSettlementDateFlows |-> FALSE,
      defaultTime |-> tau, recoveryRate |-> rec] :
        side \in {"Buyer", "Seller", "Unknown"},
        ppt \in {"atDefault", "atPeriodEnd", "atMaturity", "unknown"},
        acc \in BOOLEAN, spread \in {0, 1}, notional \in {-1, 0, 1},
        u \in UpfrontSetups, r \in RebateSetups, leg \in Legs,
        d \in DateSetups, tau \in {1, Period + 1}, rec \in {0, 1}}

NoArguments == [side |-> "none"]

\* the engine called on a reset results structure
CdsCalculate ==
    /\ cdsStatus = "reset"
    /\ \E a \in CdsArguments :
         \E o \in CalculateOutcomes(a) :
            /\ cdsArgs' = a
            /\ cdsResults' = o.results
            /\ cdsRaw' = o.raw
            /\ cdsStatus' = o.status
    /\ UNCHANGED <<ctorVars, curveVars, sharedVars, cacheVars, simmVars, convVars, configVars>>

\* results.reset() before the next calculation
CdsReset ==
    /\ cdsStatus # "reset"
    /\ cdsArgs' = NoArguments
    /\ cdsResults' = ResetResults
    /\ cdsRaw' = <<>>
    /\ cdsStatus' = "reset"
    /\ UNCHANGED <<ctorVars, curveVars, sharedVars, cacheVars, simmVars, convVars, configVars>>

InitCds ==
    /\ cdsArgs = NoArguments
    /\ cdsResults = ResetResults
    /\ cdsRaw = <<>>
    /\ cdsStatus = "reset"

NextCds == CdsCalculate \/ CdsReset

(***************************************************************************)
(* XAssetStateProcess::ExactDiscretization: the cache of the exact         *)
(* discretization                                                          *)
(***************************************************************************)
\* the time steps asked for
CacheT0s == {0, 1}

CacheDts == {1, 2}

CacheKeys == {[t0 |-> t0, dt |-> dt] : t0 \in CacheT0s, dt \in CacheDts}

\* the three maps: cache_m_ (drift), cache_d_ (diffusion), cache_v_ (covariance)
CacheKinds == {"drift", "diffusion", "covariance"}

\* the states of the model parametrization
Parametrizations == {"calibration A", "calibration B"}

\* cache_key::operator== comparing t0 alone
CacheKeyEqT0Only(k, o) == k.t0 = o.t0

\* cache_key::operator==
CacheKeyEq(k, o) == (k.t0 = o.t0) /\ (k.dt = o.dt)

\* unordered_map::find(k): the entries of the map the key k finds.  The
\* hasher combines the same two fields t0 and dt, so equal keys have equal
\* hashes and operator== decides which entry a key finds.
CacheFind(map, k) == {e \in map : CacheKeyEq(e.key, k)}

\* the value computed for a step from the parametrization p
ComputeExact(kind, p, k) == <<kind, p, k.t0, k.dt>>

CacheSize == Cardinality(cache["drift"]) + Cardinality(cache["diffusion"])
                 + Cardinality(cache["covariance"])

\* drift / diffusion / covariance (t0, x0, dt): look the step up, compute and
\* store it when it is not found
CachedQuery(kind, k) ==
    LET found == CacheFind(cache[kind], k)
    IN  /\ found # {} \/ CacheSize < MaxEntries
        /\ IF found # {}
           THEN /\ cacheResult' = (CHOOSE e \in found : TRUE).value
                /\ cacheHit' = TRUE
                /\ UNCHANGED cache
           ELSE /\ cacheResult' = ComputeExact(kind, parametrization, k)
                /\ cacheHit' = FALSE
                /\ cache' = [cache EXCEPT ![kind] =
                       @ \cup {[key |-> k,
                                value |-> ComputeExact(kind, parametrization, k)]}]
        /\ cacheOp' = <<kind, k>>
        /\ cacheWasSeen' = (<<kind, k>> \in cacheSeen)
        /\ cacheSeen' = cacheSeen \cup {<<kind, k>>}
        /\ cacheFirst' = IF <<kind, k>> \in cacheSeen
                         THEN cacheFirst
                         ELSE cacheFirst \cup {<<kind, k, cacheResult'>>}
        /\ cacheStale' = IF cacheResult' # ComputeExact(kind, parametrization, k)
                         THEN "read"
                         ELSE cacheStale
        /\ UNCHANGED parametrization
        /\ UNCHANGED <<ctorVars, curveVars, sharedVars, cdsVars, simmVars, convVars, configVars>>

ExactDrift(k) == CachedQuery("drift", k)

ExactDiffusion(k) == CachedQuery("diffusion", k)

ExactCovariance(k) == CachedQuery("covariance", k)

\* flushCache() clearing the drift map alone
FlushCacheDriftOnly ==
    /\ cache' = [cache EXCEPT !["drift"] = {}]
    /\ cacheOp' = <<"flushCache">>
    /\ cacheResult' = <<>>
    /\ cacheHit' = FALSE
    /\ cacheWasSeen' = FALSE
    /\ cacheSeen' = {}
    /\ cacheFirst' = {}
    /\ cacheStale' = IF cacheStale = "read" THEN "flushed" ELSE "no"
    /\ UNCHANGED parametrization
    /\ UNCHANGED <<ctorVars, curveVars, sharedVars, cdsVars, simmVars, convVars, configVars>>

\* flushCache(): the three maps are cleared
FlushCache ==
    /\ cache' = [kind \in CacheKinds |-> {}]
    /\ cacheOp' = <<"flushCache">>
    /\ cacheResult' = <<>>
    /\ cacheHit' = FALSE
    /\ cacheWasSeen' = FALSE
    /\ cacheSeen' = {}
    /\ cacheFirst' = {}
    /\ cacheStale' = IF cacheStale = "read" THEN "flushed" ELSE "no"
    /\ UNCHANGED parametrization
    /\ UNCHANGED <<ctorVars, curveVars, sharedVars, cdsVars, simmVars, convVars, configVars>>

\* the model is recalibrated: the parametrization changes, the process is
\* not told
ChangeParametrization ==
    /\ \E p \in Parametrizations \ {parametrization} : parametrization' = p
    /\ cacheOp' = <<"changeParametrization">>
    /\ cacheResult' = <<>>
    /\ cacheHit' = FALSE
    /\ cacheWasSeen' = FALSE
    /\ UNCHANGED <<cache, cacheSeen, cacheFirst, cacheStale>>
    /\ UNCHANGED <<ctorVars, curveVars, sharedVars, cdsVars, simmVars, convVars, configVars>>

InitCache ==
    /\ cache = [kind \in CacheKinds |-> {}]
    /\ parametrization = "calibration A"
    /\ cacheOp = <<"constructed">>
    /\ cacheResult = <<>>
    /\ cacheHit = FALSE
    /\ cacheWasSeen = FALSE
    /\ cacheSeen = {}
    /\ cacheFirst = {}
    /\ cacheStale = "no"

NextCache ==
    \/ \E k \in CacheKeys : ExactDrift(k)
    \/ \E k \in CacheKeys : ExactDiffusion(k)
    \/ \E k \in CacheKeys : ExactCovariance(k)
    \/ FlushCache
    \/ ChangeParametrization

(***************************************************************************)
(* SimmConfiguration_ISDA_V2_3_8::group                                    *)
(***************************************************************************)
\* the qualifiers looked up: currencies
SimmCurrencies == {"USD", "EUR", "BRL"}

SimmGroupIndices == 0 .. NumGroups - 1

\* the group maps a lookup may be handed: any sets of qualifiers
SimmGroupMaps == [SimmGroupIndices -> SUBSET SimmCurrencies]

\* ccyGroups_: the FX volatility groups, Regular (0) and High (1)
CcyGroups ==
    [g \in SimmGroupIndices |->
        IF g = 0 THEN {"USD", "EUR"} ELSE IF g = 1 THEN {"BRL"} ELSE {}]

SimmFound(g) == [status |-> "found", index |-> g]

SimmFailed == [status |-> "failed", index |-> 0]

\* the lookup returning the first group that contains the qualifier
SimmGroupFirstMatch(qualifier, groups) ==
    LET containing == {g \in DOMAIN groups : qualifier \in groups[g]}
    IN  IF containing = {} THEN SimmFailed
        ELSE SimmFound(CHOOSE g \in containing : \A h \in containing : g <= h)

\* group(qualifier, groups): the index of the one group that contains the
\* qualifier; a qualifier in no group or in several is a configuration error
SimmGroup(qualifier, groups) ==
    LET containing == {g \in DOMAIN groups : qualifier \in groups[g]}
    IN  IF Cardinality(containing) = 1
        THEN SimmFound(CHOOSE g \in containing : TRUE)
        ELSE SimmFailed

\* group(qualifier, groups) on any group map
GroupLookup(qualifier, groups) ==
    /\ simmQualifier' = qualifier
    /\ simmGroups' = groups
    /\ simmResult' = SimmGroup(qualifier, groups)
    /\ UNCHANGED <<ctorVars, curveVars, sharedVars, cdsVars, cacheVars, convVars, configVars>>

\* group(qualifier, ccyGroups_), as weight() and correlation() call it for FX
CcyGroupLookup(qualifier) == GroupLookup(qualifier, CcyGroups)

InitSimm ==
    /\ simmQualifier = ""
    /\ simmGroups = CcyGroups
    /\ simmResult = [status |-> "none", index |-> 0]

NextSimm ==
    \/ \E q \in SimmCurrencies, m \in SimmGroupMaps : GroupLookup(q, m)
    \/ \E q \in SimmCurrencies : CcyGroupLookup(q)

(***************************************************************************)
(* CommodityFutureConvention::build and checkContinuationMappings          *)
(***************************************************************************)
\* map<Natural, Natural>: the continuation mappings, From -> To
ContinuationMappings ==
    UNION {[D -> 0 .. MaxTo] : D \in SUBSET (0 .. MaxFrom)}

\* checkContinuationMappings, lines 54-60: the loop over the entries in
\* ascending order of From, from the entries froms on; "" when no
\* requirement fails
RECURSIVE CheckEntries(_, _, _)
CheckEntries(mp, froms, previousValue) ==
    IF froms = {} THEN ""
    ELSE LET from == CHOOSE k \in froms : \A j \in froms : k <= j
         IN  IF ~(from <= mp[from]) THEN "From is greater than To"
             ELSE IF ~(mp[from] > previousValue)
                  THEN "To should be strictly increasing"
             ELSE CheckEntries(mp, froms \ {from}, mp[from])

\* checkContinuationMappings with the test of From against To alone
CheckFromOnly(mp) ==
    IF \E from \in DOMAIN mp : ~(from <= mp[from])
    THEN "From is greater than To"
    ELSE ""

\* checkContinuationMappings(mp, name): previousValue starts at 0
CheckContinuationMappings(mp) == CheckEntries(mp, DOMAIN mp, 0)

\* the off-peak power index data of the convention: none, data naming other
\* indices, or data naming the convention's own index
OffPeakData == {"none", "other indices", "own index"}

ConvInputs ==
    [futureContinuationMappings : ContinuationMappings,
     optionContinuationMappings : ContinuationMappings,
     offPeakPowerIndexData : OffPeakData]

NoConvention ==
    [futureContinuationMappings |-> <<>>, optionContinuationMappings |-> <<>>,
     offPeakPowerIndexData |-> "none"]

\* build(), lines 1756-1794, on a convention whose frequency, anchor,
\* calendars and optional entries parse (lines 1758-1779)
BuildOutcome(c) ==
    IF CheckContinuationMappings(c.futureContinuationMappings) # ""
    THEN [status |-> "failed",
          error |-> <<"future", CheckContinuationMappings(c.futureContinuationMappings)>>]
    ELSE IF CheckContinuationMappings(c.optionContinuationMappings) # ""
    THEN [status |-> "failed",
          error |-> <<"option", CheckContinuationMappings(c.optionContinuationMappings)>>]
    ELSE IF c.offPeakPowerIndexData = "own index"
    THEN [status |-> "failed", error |-> <<"off-peak", "index cannot equal its own">>]
    ELSE [status |-> "built", error |-> <<>>]

\* CommodityFutureConvention::build()
ConvBuild ==
    /\ convStatus = "none"
    /\ \E c \in ConvInputs :
          /\ convInput' = c
          /\ convStatus' = BuildOutcome(c).status
          /\ convError' = BuildOutcome(c).error
    /\ UNCHANGED <<ctorVars, curveVars, sharedVars, cdsVars, cacheVars, simmVars, configVars>>

\* the convention is dropped
ConvDiscard ==
    /\ convStatus # "none"
    /\ convInput' = NoConvention
    /\ convStatus' = "none"
    /\ convError' = <<>>
    /\ UNCHANGED <<ctorVars, curveVars, sharedVars, cdsVars, cacheVars, simmVars, configVars>>

InitConv ==
    /\ convInput = NoConvention
    /\ convStatus = "none"
    /\ convError = <<>>

NextConv == ConvBuild \/ ConvDiscard

(***************************************************************************)
(* Conventions: the container of the conventions, its add, clear, has and  *)
(* fromXML                                                                 *)
(***************************************************************************)
\* the texts of the Id child of a node, or of the id given to a constructor
LocalIds == {"EUR-EURIBOR-7D", "EUR-EURIBOR-1W", "EUR-EONIA"}

\* IborIndexConvention::build, lines 369-380: id_ is the local id with its
\* term normalised, 7D becomes 1W
IborIndexId(localId) ==
    IF localId = "EUR-EURIBOR-7D" THEN "EUR-EURIBOR-1W" ELSE localId

\* lines 1959-2007: the names of the children a convention is made for (two
\* of them kept: one that stands alone, one that needs an index convention)
RecognisedNames == {"IborIndex", "Swap"}

\* the children of a <Conventions> node: name is the node name, hasId
\* whether it has an Id child, id the text of that child, valid whether the
\* convention's own fromXML reads all it requires, index the Index child of
\* a Swap
ConventionNodes ==
    {[name |-> "IborIndex", hasId |-> TRUE, id |-> l, valid |-> TRUE, index |-> ""] :
        l \in LocalIds}
    \cup {[name |-> "IborIndex", hasId |-> TRUE, id |-> "EUR-EONIA",
           valid |-> FALSE, index |-> ""],
          [name |-> "IborIndex", hasId |-> FALSE, id |-> "", valid |-> FALSE,
           index |-> ""],
          [name |-> "Swap", hasId |-> TRUE, id |-> "EUR-EURIBOR-1W",
           valid |-> TRUE, index |-> "EUR-EONIA"],
          [name |-> "Unknown", hasId |-> FALSE, id |-> "", valid |-> FALSE,
           index |-> ""]}

Documents == UNION {[1 .. n -> ConventionNodes] : n \in 0 .. MaxNodes}

\* the convention a node is read into: IborIndexConvention::fromXML (lines
\* 346-356) with build(), IRSwapConvention::fromXML (lines 466-485)
ConventionOf(node) ==
    IF node.name = "IborIndex"
    THEN [type |-> "IborIndex", id |-> IborIndexId(node.id), localId |-> node.id,
          index |-> ""]
    ELSE [type |-> "Swap", id |-> node.id, localId |-> node.id,
          index |-> node.index]

\* the conventions a caller constructs and hands to add()
Conventions ==
    {ConventionOf(n) : n \in {m \in ConventionNodes : m.hasId /\ m.valid}}

NoConventions == [k \in {} |-> 0]

\* Conventions::has(id), line 2060
Has(data, id) == id \in DOMAIN data

\* Conventions::has(id, type), lines 2062-2064 with get(id, type)
HasType(data, id, type) == id \in DOMAIN data /\ data[id].type = type

\* add() without its requirement
AddOverwriting(data, convention) ==
    [data |-> (convention.id :> convention) @@ data, error |-> ""]

\* Conventions::add, lines 2066-2070
Add(data, convention) ==
    IF convention.id \in DOMAIN data
    THEN [data |-> data, error |-> "Convention already exists"]
    ELSE [data |-> data @@ (convention.id :> convention), error |-> ""]

\* a fromXML that accepts every node
ConventionFromXMLUnchecked(data, node) == TRUE

\* convention->fromXML(child), line 2014: whether it returns; the build of
\* a Swap (lines 449-455) needs the convention of its index in the container
ConventionFromXML(data, node) ==
    /\ node.valid
    /\ node.name = "Swap" => HasType(data, node.index, "IborIndex")

\* the loop of Conventions::fromXML from child i on, lines 1949-2021: the
\* container it leaves and the message of the exception that leaves it.
\* The Id is read at line 2010, before the try block
RECURSIVE LoadNodes(_, _, _)
LoadNodes(data, doc, i) ==
    IF i > Len(doc) THEN [data |-> data, thrown |-> ""]
    ELSE IF doc[i].name \notin RecognisedNames THEN LoadNodes(data, doc, i + 1)
    ELSE IF ~doc[i].hasId
         THEN [data |-> data, thrown |-> "No XML Child Node Id found"]
    ELSE IF ~ConventionFromXML(data, doc[i]) THEN LoadNodes(data, doc, i + 1)
    ELSE LoadNodes(Add(data, ConventionOf(doc[i])).data, doc, i + 1)

NoCall == [op |-> "none", doc |-> <<>>, convention |-> <<>>,
           before |-> NoConventions, thrown |-> ""]

\* Conventions::fromXML(node)
ConventionsFromXML ==
    /\ \E doc \in Documents :
          /\ conventionsData' = LoadNodes(conventionsData, doc, 1).data
          /\ conventionsCall' =
                [op |-> "fromXML", doc |-> doc, convention |-> <<>>,
                 before |-> conventionsData,
                 thrown |-> LoadNodes(conventionsData, doc, 1).thrown]
    /\ UNCHANGED <<ctorVars, curveVars, sharedVars, cdsVars, cacheVars, simmVars,
                   convVars, inflationVars, expiryVars, paramsVars>>

\* Conventions::add(convention)
ConventionsAdd ==
    /\ \E c \in Conventions :
          /\ conventionsData' = Add(conventionsData, c).data
          /\ conventionsCall' =
                [op |-> "add", doc |-> <<>>, convention |-> c,
                 before |-> conventionsData,
                 thrown |-> Add(conventionsData, c).error]
    /\ UNCHANGED <<ctorVars, curveVars, sharedVars, cdsVars, cacheVars, simmVars,
                   convVars, inflationVars, expiryVars, paramsVars>>

\* Conventions::clear(), line 2035
ConventionsClear ==
    /\ conventionsData' = NoConventions
    /\ conventionsCall' = [NoCall EXCEPT !.op = "clear",
                                         !.before = conventionsData]
    /\ UNCHANGED <<ctorVars, curveVars, sharedVars, cdsVars, cacheVars, simmVars,
                   convVars, inflationVars, expiryVars, paramsVars>>

InitRegistry ==
    /\ conventionsData = NoConventions
    /\ conventionsCall = NoCall

NextRegistry == ConventionsFromXML \/ ConventionsAdd \/ ConventionsClear

(***************************************************************************)
(* InflationSwapConvention: toXML and fromXML                              *)
(***************************************************************************)
PublicationRolls == {"PublicationRoll::None", "PublicationRoll::OnPublicationDate",
                     "PublicationRoll::AfterPublicationDate"}

\* the schedule data a convention may hold; "null" is the empty pointer
ScheduleDatas == {"null", "monthly", "quarterly"}

\* to_string(publicationRoll_), line 1073
RollToString(roll) ==
    CASE roll = "PublicationRoll::None" -> "None"
      [] roll = "PublicationRoll::OnPublicationDate" -> "OnPublicationDate"
      [] roll = "PublicationRoll::AfterPublicationDate" -> "AfterPublicationDate"

\* parseInflationSwapPublicationRoll, line 1044
ParseInflationSwapPublicationRoll(text) ==
    CASE text = "None" -> "PublicationRoll::None"
      [] text = "OnPublicationDate" -> "PublicationRoll::OnPublicationDate"
      [] text = "AfterPublicationDate" -> "PublicationRoll::AfterPublicationDate"

\* the arguments of the constructor of lines 992-1007 (the strings build()
\* parses reduced to the id, the index and the interpolation flag)
InflationSwapArguments ==
    [id : {"EUHICPXT_INFLATIONSWAP", "UKRPI_INFLATIONSWAP"},
     strIndex : {"EUHICPXT", "UKRPI"},
     strInterpolated : {"true", "false"},
     publicationRoll : PublicationRolls,
     publicationScheduleData : ScheduleDatas]

NoInflationSwap ==
    [id |-> "", strIndex |-> "", strInterpolated |-> "",
     publicationRoll |-> "PublicationRoll::None",
     publicationScheduleData |-> "null"]

NoNode == [k \in {} |-> ""]

\* InflationSwapConvention::build, lines 1009-1024: the message of the
\* requirement that fails, "" when none does
InflationSwapBuild(c) ==
    IF c.publicationRoll # "PublicationRoll::None"
       /\ c.publicationScheduleData = "null"
    THEN "expect non-null publication schedule data"
    ELSE ""

\* toXML writing the roll under the name fromXML reads
InflationSwapToXMLPublicationRoll(c) ==
    LET plain == ("Id" :> c.id) @@ ("Index" :> c.strIndex)
                    @@ ("Interpolated" :> c.strInterpolated)
    IN  IF c.publicationRoll = "PublicationRoll::None"
        THEN [node |-> plain, error |-> ""]
        ELSE IF c.publicationScheduleData = "null"
        THEN [node |-> NoNode, error |-> "expect PublicationSchedule"]
        ELSE [node |-> plain
                        @@ ("PublicationRoll" :> RollToString(c.publicationRoll))
                        @@ ("PublicationSchedule" :> c.publicationScheduleData),
              error |-> ""]

\* InflationSwapConvention::toXML, lines 1058-1084: the children of the
\* node it returns, by name
InflationSwapToXML(c) ==
    LET plain == ("Id" :> c.id) @@ ("Index" :> c.strIndex)
                    @@ ("Interpolated" :> c.strInterpolated)
    IN  IF c.publicationRoll = "PublicationRoll::None"
        THEN [node |-> plain, error |-> ""]
        ELSE IF c.publicationScheduleData = "null"
        THEN [node |-> NoNode, error |-> "expect PublicationSchedule"]
        ELSE [node |-> plain
                        @@ ("RollOnPublication" :> RollToString(c.publicationRoll))
                        @@ ("PublicationSchedule" :> c.publicationScheduleData),
              error |-> ""]

\* lines 1042-1045: the roll fromXML reads
ReadPublicationRoll(node) ==
    IF "PublicationRoll" \in DOMAIN node
    THEN ParseInflationSwapPublicationRoll(node["PublicationRoll"])
    ELSE "PublicationRoll::None"

\* InflationSwapConvention::fromXML, lines 1026-1056, into a convention
\* made by the constructor of lines 988-990
InflationSwapFromXML(node) ==
    LET roll == ReadPublicationRoll(node)
        read == [id |-> node["Id"], strIndex |-> node["Index"],
                 strInterpolated |-> node["Interpolated"],
                 publicationRoll |-> roll,
                 publicationScheduleData |-> "null"]
    IN  IF roll = "PublicationRoll::None"
        THEN [convention |-> read, error |-> ""]
        ELSE IF "PublicationSchedule" \notin DOMAIN node
        THEN [convention |-> read, error |-> "expect non-empty PublicationSchedule"]
        ELSE [convention |->
                 [read EXCEPT !.publicationScheduleData = node["PublicationSchedule"]],
              error |-> ""]

\* new InflationSwapConvention(id, ..., publicationRoll, publicationScheduleData)
InfConstruct ==
    /\ infStatus = "none"
    /\ \E c \in InflationSwapArguments :
          /\ infConvention' = c
          /\ infStatus' = IF InflationSwapBuild(c) = "" THEN "built" ELSE "failed"
    /\ UNCHANGED <<infNode, infRead>>
    /\ UNCHANGED <<ctorVars, curveVars, sharedVars, cdsVars, cacheVars, simmVars,
                   convVars, registryVars, expiryVars, paramsVars>>

\* convention.toXML(doc)
InfToXML ==
    /\ infStatus = "built"
    /\ infNode' = InflationSwapToXML(infConvention).node
    /\ infStatus' = IF InflationSwapToXML(infConvention).error = ""
                    THEN "written" ELSE "failed"
    /\ UNCHANGED <<infConvention, infRead>>
    /\ UNCHANGED <<ctorVars, curveVars, sharedVars, cdsVars, cacheVars, simmVars,
                   convVars, registryVars, expiryVars, paramsVars>>

\* InflationSwapConvention(conventions).fromXML(node) on the node written
InfFromXML ==
    /\ infStatus = "written"
    /\ infRead' = InflationSwapFromXML(infNode).convention
    /\ infStatus' = IF InflationSwapFromXML(infNode).error = ""
                    THEN "read" ELSE "failed"
    /\ UNCHANGED <<infConvention, infNode>>
    /\ UNCHANGED <<ctorVars, curveVars, sharedVars, cdsVars, cacheVars, simmVars,
                   convVars, registryVars, expiryVars, paramsVars>>

\* the conventions and the node are dropped
InfDiscard ==
    /\ infStatus \in {"read", "failed"}
    /\ infConvention' = NoInflationSwap
    /\ infNode' = NoNode
    /\ infRead' = NoInflationSwap
    /\ infStatus' = "none"
    /\ UNCHANGED <<ctorVars, curveVars, sharedVars, cdsVars, cacheVars, simmVars,
                   convVars, registryVars, expiryVars, paramsVars>>

InitInflation ==
    /\ infConvention = NoInflationSwap
    /\ infNode = NoNode
    /\ infRead = NoInflationSwap
    /\ infStatus = "none"

NextInflation == InfConstruct \/ InfToXML \/ InfFromXML \/ InfDiscard

(***************************************************************************)
(* CommodityFutureConvention::ProhibitedExpiry                             *)
(***************************************************************************)
BusinessDayConventions == {"Preceding", "Following", "ModifiedFollowing"}

\* the arguments of the constructor of lines 1411-1417
ProhibitedExpiryArguments ==
    [expiry : 0 .. MaxDate, forFuture : BOOLEAN,
     futureBdc : BusinessDayConventions,
     forOption : BOOLEAN, optionBdc : BusinessDayConventions]

\* a <Date> node: its value and its attributes, "" for an absent attribute
ProhibitedExpiryNodes ==
    [expiry : 0 .. MaxDate, forFuture : {"", "false"},
     convention : {"", "Following"},
     forOption : {"", "false"}, optionConvention : {"", "ModifiedFollowing"}]

\* the constructor storing its arguments
ProhibitedExpiryStoringArguments(a) ==
    [expiry_ |-> a.expiry, forFuture_ |-> a.forFuture, futureBdc_ |-> a.futureBdc,
     forOption_ |-> a.forOption, optionBdc_ |-> a.optionBdc]

\* ProhibitedExpiry::ProhibitedExpiry(expiry, forFuture, futureBdc,
\* forOption, optionBdc), lines 1411-1417: the members it initialises
ProhibitedExpiry(a) ==
    [expiry_ |-> a.expiry, forFuture_ |-> TRUE, futureBdc_ |-> "Preceding",
     forOption_ |-> TRUE, optionBdc_ |-> "Preceding"]

\* parseBool on the texts toXML writes
ParseBool(text) == text = "true"

\* ProhibitedExpiry::fromXML, lines 1419-1430
ProhibitedExpiryFromXML(node) ==
    [expiry_ |-> node.expiry,
     forFuture_ |-> IF node.forFuture = "" THEN TRUE ELSE ParseBool(node.forFuture),
     futureBdc_ |-> IF node.convention = "" THEN "Preceding" ELSE node.convention,
     forOption_ |-> IF node.forOption = "" THEN TRUE ELSE ParseBool(node.forOption),
     optionBdc_ |-> IF node.optionConvention = "" THEN "Preceding"
                    ELSE node.optionConvention]

\* the inspectors expiry(), forFuture(), futureBdc(), forOption() and
\* optionBdc(): each returns its member
ProhibitedExpiryInspectors(o) ==
    [expiry |-> o.expiry_, forFuture |-> o.forFuture_, futureBdc |-> o.futureBdc_,
     forOption |-> o.forOption_, optionBdc |-> o.optionBdc_]

NoProhibitedExpiry ==
    [expiry_ |-> 0, forFuture_ |-> TRUE, futureBdc_ |-> "Preceding",
     forOption_ |-> TRUE, optionBdc_ |-> "Preceding"]

\* ProhibitedExpiry(expiry, forFuture, futureBdc, forOption, optionBdc)
ExpiryConstruct ==
    /\ \E a \in ProhibitedExpiryArguments :
          /\ expiryArgs' = a
          /\ expiryObject' = ProhibitedExpiry(a)
    /\ expiryStatus' = "constructed"
    /\ UNCHANGED <<ctorVars, curveVars, sharedVars, cdsVars, cacheVars, simmVars,
                   convVars, registryVars, inflationVars, paramsVars>>

\* ProhibitedExpiry().fromXML(node)
ExpiryFromXML ==
    /\ \E n \in ProhibitedExpiryNodes :
          /\ expiryArgs' = n
          /\ expiryObject' = ProhibitedExpiryFromXML(n)
    /\ expiryStatus' = "read"
    /\ UNCHANGED <<ctorVars, curveVars, sharedVars, cdsVars, cacheVars, simmVars,
                   convVars, registryVars, inflationVars, paramsVars>>

InitExpiry ==
    /\ expiryArgs = <<>>
    /\ expiryObject = NoProhibitedExpiry
    /\ expiryStatus = "none"

NextExpiry == ExpiryConstruct \/ ExpiryFromXML

(***************************************************************************)
(* ScenarioSimMarketParameters: the names kept by risk factor key type     *)
(***************************************************************************)
KeyTypes == {"CPIIndex", "ZeroInflationCurve", "YoYInflationCurve", "FXVolatility"}

\* the names a setter is given
NamesOf(kt) == IF kt = "FXVolatility" THEN {"EURUSD", "GBPUSD"}
                                      ELSE {"EUHICPXT", "UKRPI"}

\* the setters of lines 243, 268, 269 and 272, and the key type each one
\* registers its names for
Setters ==
    {[name |-> "setCpiIndices", kt |-> "CPIIndex"],
     [name |-> "setZeroInflationIndices", kt |-> "ZeroInflationCurve"],
     [name |-> "setYoyInflationIndices", kt |-> "YoYInflationCurve"],
     [name |-> "setFxVolCcyPairs", kt |-> "FXVolatility"]}

\* what a setter can leave in params_: the names given, alone or joined to
\* those registered before
SetterOutcomes(params, kt, names) ==
    {[params EXCEPT ![kt] = names], [params EXCEPT ![kt] = @ \cup names]}

\* paramsLookup(kt), line 67: the names registered for the key type
ParamsLookup(params, kt) == params[kt]

\* cpiIndices(), line 153
CpiIndices(params) == ParamsLookup(params, "CPIIndex")

\* zeroInflationIndices() looking up the key type of the zero inflation curves
ZeroInflationIndicesOwnKey(params) == ParamsLookup(params, "ZeroInflationCurve")

\* zeroInflationIndices(), line 154
ZeroInflationIndices(params) == ParamsLookup(params, "FXVolatility")

\* yoyInflationIndices(), line 159
YoyInflationIndices(params) == ParamsLookup(params, "YoYInflationCurve")

\* fxVolCcyPairs(), line 129
FxVolCcyPairs(params) == ParamsLookup(params, "FXVolatility")

\* what the four inspectors return
Inspectors(params) ==
    [cpiIndices |-> CpiIndices(params),
     zeroInflationIndices |-> ZeroInflationIndices(params),
     yoyInflationIndices |-> YoyInflationIndices(params),
     fxVolCcyPairs |-> FxVolCcyPairs(params)]

NoParams == [kt \in KeyTypes |-> {}]

NoSetter == [name |-> "none", kt |-> "none", names |-> {}]

\* one of the four setters called with some names
ParamsSet ==
    /\ \E st \in Setters : \E names \in SUBSET NamesOf(st.kt) :
          /\ params_' \in SetterOutcomes(params_, st.kt, names)
          /\ paramsCall' = [name |-> st.name, kt |-> st.kt, names |-> names]
    /\ paramsBefore' = Inspectors(params_)
    /\ UNCHANGED <<ctorVars, curveVars, sharedVars, cdsVars, cacheVars, simmVars,
                   convVars, registryVars, inflationVars, expiryVars>>

InitParams ==
    /\ params_ = NoParams
    /\ paramsCall = NoSetter
    /\ paramsBefore = Inspectors(NoParams)

NextParams == ParamsSet

(***************************************************************************)
(* Specifications                                                          *)
(***************************************************************************)
Init ==
    /\ InitCtor /\ InitCurve /\ InitShared /\ InitCds /\ InitCache
    /\ InitSimm /\ InitConv
    /\ InitRegistry /\ InitInflation /\ InitExpiry /\ InitParams

\* the same with the curve built on quotes of value 0, for the
\* specifications of the other engines
InitAtRest ==
    /\ InitCtor /\ InitCurve /\ quotes = [i \in Nodes |-> 0]
    /\ InitShared /\ InitCds /\ InitCache /\ InitSimm /\ InitConv
    /\ InitRegistry /\ InitInflation /\ InitExpiry /\ InitParams

\* the curve built on quotes of the values 1, 2, ..., about to be shared
InitQuoted ==
    /\ InitCtor /\ InitCurve /\ quotes = [i \in Nodes |-> i]
    /\ InitShared /\ InitCds /\ InitCache /\ InitSimm /\ InitConv
    /\ InitRegistry /\ InitInflation /\ InitExpiry /\ InitParams

SpecCtor == InitAtRest /\ [][NextCtor]_vars

SpecCurve == Init /\ [][NextCurve]_vars

SpecShared == InitQuoted /\ [][NextShared]_vars

SpecCds == InitAtRest /\ [][NextCds]_vars

SpecCache == InitAtRest /\ [][NextCache]_vars

SpecSimm == InitAtRest /\ [][NextSimm]_vars

SpecConv == InitAtRest /\ [][NextConv]_vars

SpecRegistry == InitAtRest /\ [][NextRegistry]_vars

SpecInflation == InitAtRest /\ [][NextInflation]_vars

SpecExpiry == InitAtRest /\ [][NextExpiry]_vars

SpecParams == InitAtRest /\ [][NextParams]_vars

Next ==
    \/ NextCtor \/ NextCurve \/ NextShared \/ NextCds \/ NextCache
    \/ NextSimm \/ NextConv
    \/ NextRegistry \/ NextInflation \/ NextExpiry \/ NextParams

Spec == Init /\ [][Next]_vars

(***************************************************************************)
(* Claims on YoYInflationCurveObserver                                     *)
(***************************************************************************)
IsRead(op) == op[1] \in {"yoyRateImpl", "data", "rates", "nodes", "baseDate"}

ZeroData == [i \in Nodes |-> 0]

\* C1: every read through yoyRateImpl(t), data(), rates() or nodes() returns
\* the value computed from the quote values current at the moment of the
\* read, the first read after construction included; no read returns a
\* value computed from older quote values or from the zero placeholder.
C1_LazyReadIsCurrent ==
    /\ curveOp[1] = "yoyRateImpl"
          => curveResult = <<FreshValue(curveOp[2], times_, quotes)>>
    /\ curveOp[1] \in {"data", "rates"}
          => curveResult = [i \in Nodes |-> quotes[i]]
    /\ curveOp[1] = "nodes"
          => curveResult = [i \in Nodes |-> <<times_[i], quotes[i]>>]

\* a read between the nodes, after at least two notifications, of a curve
\* whose data had been calculated from other quote values before
C1_Witness ==
    /\ curveOp = <<"yoyRateImpl", 1>>
    /\ updates = MaxCount
    /\ reads = 1
    /\ opRecomputes = 1
    /\ quotes[1] # quotes[2]
    /\ curveResult = <<quotes[1] * TimeStep + (quotes[2] - quotes[1])>>

\* C2: between two consecutive update() calls any number N >= 1 of
\* consecutive reads runs performCalculations exactly once, on the first of
\* those reads; the remaining N - 1 reads run it zero times.
C2_RecomputeOnce ==
    /\ reads = 0 => recomputes = 0
    /\ reads >= 1 => recomputes = 1
    /\ IsRead(curveOp) => opRecomputes = (IF reads = 1 THEN 1 ELSE 0)

\* MaxReads reads after a quote mutation, one recalculation
C2_Witness ==
    /\ updates >= 1
    /\ reads = MaxReads
    /\ recomputes = 1
    /\ IsRead(curveOp)
    /\ opRecomputes = 0
    /\ data_ # ZeroData

\* C3: update() only marks the curve dirty: it does not run
\* performCalculations and leaves data_ and the interpolation unchanged;
\* data_ changes only inside a read.
C3_UpdateOnlyMarksDirty ==
    [][/\ curveOp'[1] \in {"update", "setQuote"}
          => /\ data_' = data_
             /\ interpolation_' = interpolation_
             /\ opRecomputes' = 0
             /\ ~calculated_'
       /\ (data_' # data_ \/ interpolation_' # interpolation_)
          => IsRead(curveOp')]_vars

\* after a quote mutation the curve is dirty and still holds the data that
\* was calculated from the former quote values
C3_Witness ==
    /\ curveOp[1] = "setQuote"
    /\ ~calculated_
    /\ data_ # ZeroData
    /\ data_ # [i \in Nodes |-> quotes[i]]

\* C16: for an index that is not interpolated every node date is the start
\* of the inflation period of the date handed in, put there by the
\* constructor; whatever update(), recalculation and reads follow, the node
\* dates and the node times stay what the constructor made them.
C16_SnappedOnce ==
    /\ DOMAIN dates_ = Nodes
    /\ \A i \in Nodes :
          /\ dates_[i] % TimeStep = 0
          /\ dates_[i] <= CurveInput.dates[i]
          /\ CurveInput.dates[i] < dates_[i] + TimeStep
    /\ times_ = [i \in Nodes |-> TimeFromReference(dates_[i], CurveInput.dayCounter)]

\* a read that recalculated after an update(): the dates are the snapped
\* ones, not the dates handed in
C16_Witness ==
    /\ IsRead(curveOp)
    /\ opRecomputes = 1
    /\ updates = MaxCount
    /\ data_ # ZeroData
    /\ dates_ # CurveInput.dates
    /\ dates_ = [i \in Nodes |-> (i - 1) * TimeStep]

\* the last operation was update()
IsUpdate(op) == op[1] \in {"update", "setQuote"}

\* C17: every update() the curve receives, whether the curve is calculated
\* or already dirty at that moment, sends a notification to the observers
\* of the curve.
C17_UpdateNotifies ==
    IsUpdate(curveOp) =>
       /\ notified >= 1
       /\ ~calculated_

\* an update() received by a curve that was already dirty: the second of two
\* update() calls with no read in between
C17_Witness ==
    /\ IsUpdate(curveOp)
    /\ updates = MaxCount
    /\ recomputes = 0
    /\ notified = 1

\* every thread that has returned holds the value interpolated from the
\* current quotes
ReadersCurrent ==
    \A th \in Threads :
       pc[th] = "done" => rdResult[th] = <<FreshValue(rdTime[th], times_, quotes)>>

\* C18: threads that read the shared curve while no quote changes and no
\* other mutating call runs never race on the state of the curve, and every
\* one of them obtains the value interpolated from the current quotes; this
\* also when the curve is dirty at the moment the reads start.
C18_SharedReads == ~DataRace /\ ReadersCurrent

\* C18 as it holds: the same for threads that start to read a curve that is
\* calculated; on a dirty curve the reads themselves run the recalculation.
C18_SharedReadsOfCalculatedCurve ==
    ((\E th \in Threads : pc[th] # "idle") /\ ~dirtyAtStart) =>
        /\ ~DataRace
        /\ ReadersCurrent
        /\ calculated_
        /\ data_ = [i \in Nodes |-> quotes[i]]

\* all threads have returned from reads of a calculated curve, with
\* different arguments among them
C18_Witness ==
    /\ \A th \in Threads : pc[th] = "done"
    /\ ~dirtyAtStart
    /\ \E a, b \in Threads : rdTime[a] # rdTime[b] /\ rdResult[a] # rdResult[b]
    /\ ReadersCurrent

(***************************************************************************)
(* Claims on the constructor of YoYInflationCurveObserver                  *)
(***************************************************************************)
\* the sequence xs is strictly increasing
StrictlyIncreasing(xs) == \A i \in 2 .. Len(xs) : xs[i] > xs[i - 1]

\* C23: the construction of a curve in which some quote has a value <= -1
\* fails with "zero inflation data < -100 %": no such curve is constructed,
\* and a call that passes the requirements on the sizes, the order of the
\* dates and the node times ends with that message.
C23_RateLowerBound ==
    (ctorStatus # "none"
       /\ \E i \in 1 .. Len(ctorInput.rates) : ctorInput.rates[i] <= -1) =>
          /\ ctorStatus # "constructed"
          /\ (/\ Len(ctorInput.dates) > 1
              /\ Len(ctorInput.rates) = Len(ctorInput.dates)
              /\ StrictlyIncreasing(SnappedDates(ctorInput))
              /\ StrictlyIncreasing(NodeTimes(SnappedDates(ctorInput),
                                              ctorInput.dayCounter)))
                => (ctorStatus = "failed"
                      /\ ctorError = "zero inflation data < -100 %")

\* C14: construction succeeds only if the node dates, after the snapping of
\* a non-interpolated index, are strictly increasing and no two adjacent
\* nodes have the same time under the day counter, so that every constructed
\* curve has strictly increasing node times; every call whose input dates
\* have some dates[i] <= dates[i-1] fails with a validation error and leaves
\* no curve.
C14_NodeOrdering ==
    /\ ctorStatus = "constructed" =>
          /\ StrictlyIncreasing(ctorCurve.dates)
          /\ StrictlyIncreasing(ctorCurve.times)
          /\ ~ctorInput.indexIsInterpolated =>
                \A i \in 1 .. Len(ctorCurve.dates) : ctorCurve.dates[i] % TimeStep = 0
    /\ (ctorStatus # "none" /\ ~StrictlyIncreasing(ctorInput.dates)) =>
          /\ ctorStatus = "failed"
          /\ ctorCurve = NoCurve

\* C15: a call with fewer than two nodes, the empty date vector with the
\* empty quote vector included, fails with the validation error of the size
\* requirement before any quote is dereferenced.
C15_MinimumSize ==
    (ctorStatus # "none" /\ Len(ctorInput.dates) < 2) =>
       /\ ctorStatus = "failed"
       /\ ctorError = "too few dates"
       /\ ctorQuoteReads = 0

(***************************************************************************)
(* Claims on MidPointCdsEngineBase::calculate                              *)
(***************************************************************************)
\* the call went past the side switch and wrote every result (line 215)
CdsPastSwitch == cdsStatus \in {"done"} \cup NullDereference

CdsNum(field) == cdsResults[field].num

\* C4: the side-dependent sign is applied exactly once, after the loop over
\* the leg has accumulated the raw values: for Protection::Seller exactly
\* defaultLegNPV, accrualRebateNPV and accrualRebateNPVCurrent are negated,
\* for Protection::Buyer exactly couponLegNPV and upfrontNPV; nothing else
\* is negated, a call that fails in the loop has negated nothing, and any
\* other side fails.
C4_SignAppliedOnce ==
    /\ (CdsPastSwitch /\ cdsArgs.side = "Seller") =>
          /\ cdsResults.defaultLegNPV = Val(-cdsRaw.defaultLegNPV)
          /\ cdsResults.accrualRebateNPV = Val(-cdsRaw.accrualRebateNPV)
          /\ cdsResults.accrualRebateNPVCurrent = Val(-cdsRaw.accrualRebateNPVCurrent)
          /\ cdsResults.couponLegNPV = Val(cdsRaw.couponLegNPV)
          /\ cdsResults.upfrontNPV = Val(cdsRaw.upfrontNPV)
    /\ (CdsPastSwitch /\ cdsArgs.side = "Buyer") =>
          /\ cdsResults.couponLegNPV = Val(-cdsRaw.couponLegNPV)
          /\ cdsResults.upfrontNPV = Val(-cdsRaw.upfrontNPV)
          /\ cdsResults.defaultLegNPV = Val(cdsRaw.defaultLegNPV)
          /\ cdsResults.accrualRebateNPV = Val(cdsRaw.accrualRebateNPV)
          /\ cdsResults.accrualRebateNPVCurrent = Val(cdsRaw.accrualRebateNPVCurrent)
    /\ CdsPastSwitch =>
          /\ cdsArgs.side \in {"Buyer", "Seller"}
          /\ cdsRaw.couponLegNPV >= 0
          /\ cdsRaw.defaultLegNPV >= 0
          /\ cdsResults.additionalResults.expectedLosses = cdsRaw.expectedLosses
          /\ cdsResults.additionalResults.midpointDiscounts = cdsRaw.midpointDiscounts
    /\ cdsStatus = "failed" =>
          /\ cdsResults.couponLegNPV = Val(cdsRaw.couponLegNPV)
          /\ cdsResults.defaultLegNPV = Val(cdsRaw.defaultLegNPV)
          /\ cdsResults.upfrontNPV = Val(cdsRaw.upfrontNPV)
          /\ cdsResults.accrualRebateNPV = Val(cdsRaw.accrualRebateNPV)
    /\ (cdsStatus # "reset" /\ cdsArgs.side \notin {"Buyer", "Seller"}) =>
          cdsStatus = "failed"

\* a buyer's valuation in which every value the switch touches is not zero
C4_Witness ==
    /\ cdsStatus = "done"
    /\ cdsArgs.side = "Buyer"
    /\ cdsRaw.couponLegNPV > 0 /\ CdsNum("couponLegNPV") < 0
    /\ cdsRaw.upfrontNPV > 0 /\ CdsNum("upfrontNPV") < 0
    /\ CdsNum("defaultLegNPV") > 0
    /\ CdsNum("accrualRebateNPV") > 0
    /\ CdsNum("accrualRebateNPVCurrent") > 0

CdsOtherSide(side) == IF side = "Buyer" THEN "Seller" ELSE "Buyer"

\* C5: for the same arguments, curves and dates the valuation as
\* Protection::Buyer and the valuation as Protection::Seller have
\* defaultLegNPV(Buyer) = -defaultLegNPV(Seller) and
\* couponLegNPV(Buyer) = -couponLegNPV(Seller).
C5_BuyerSellerSymmetry ==
    (cdsStatus = "done" /\ cdsArgs.side \in {"Buyer", "Seller"}) =>
        \A o \in CalculateOutcomes(
                     [cdsArgs EXCEPT !.side = CdsOtherSide(cdsArgs.side)]) :
            /\ o.status = "done"
            /\ o.results.defaultLegNPV = Val(-CdsNum("defaultLegNPV"))
            /\ o.results.couponLegNPV = Val(-CdsNum("couponLegNPV"))

\* a seller's valuation with both legs different from zero
C5_Witness ==
    /\ cdsStatus = "done"
    /\ cdsArgs.side = "Seller"
    /\ CdsNum("defaultLegNPV") < 0
    /\ CdsNum("couponLegNPV") > 0
    /\ Len(cdsArgs.leg) = MaxLeg

\* C6: whenever the sum a fair spread is divided by is zero
\* (couponLegNPV + accrualRebateNPV for fairSpreadDirty,
\* couponLegNPV + accrualRebateNPVCurrent for fairSpreadClean) the fair
\* spread is the Null sentinel, and no division by zero is performed.
C6_FairSpreadGuard ==
    cdsStatus = "done" =>
        /\ CdsNum("couponLegNPV") + CdsNum("accrualRebateNPV") = 0
              => cdsResults.fairSpreadDirty = NullReal
        /\ CdsNum("couponLegNPV") + CdsNum("accrualRebateNPVCurrent") = 0
              => cdsResults.fairSpreadClean = NullReal
        /\ cdsResults.fairSpreadDirty.den # 0
        /\ cdsResults.fairSpreadClean.den # 0

\* C7: couponLegBPS is the Null sentinel when spread = 0 and
\* couponLegNPV * 1e-4 / spread otherwise; upfrontBPS is the Null sentinel
\* when upfront is absent or 0 and upfrontNPV * 1e-4 / upfront otherwise;
\* neither is computed by dividing by zero.
C7_BpsGuard ==
    CdsPastSwitch =>
        /\ cdsResults.couponLegBPS =
              IF cdsArgs.spread = 0 THEN NullReal
              ELSE Quot(CdsNum("couponLegNPV"), BasisPointInv * cdsArgs.spread)
        /\ cdsResults.upfrontBPS =
              IF ~cdsArgs.upfront.set \/ cdsArgs.upfront.value = 0 THEN NullReal
              ELSE Quot(CdsNum("upfrontNPV"), BasisPointInv * cdsArgs.upfront.value)
        /\ cdsResults.couponLegBPS.den # 0
        /\ cdsResults.upfrontBPS.den # 0

\* spread 0 and upfront 0 with a coupon leg that is worth something
C7_Witness ==
    /\ cdsStatus = "done"
    /\ cdsArgs.spread = 0
    /\ cdsArgs.upfront = Some(0)
    /\ CdsNum("couponLegNPV") # 0
    /\ cdsResults.couponLegBPS = NullReal
    /\ cdsResults.upfrontBPS = NullReal

\* the upfront sensitivity: the discount factor of the upfront payment that
\* has not occurred, times the notional
CdsUpfrontSensitivity ==
    IF ~cdsArgs.upfrontPayment.set THEN 0
    ELSE IF HasOccurred(cdsArgs.upfrontPayment.date, cdsArgs) THEN 0
    ELSE Discount(cdsArgs.upfrontPayment.date) * cdsArgs.notional

\* C8: fairUpfront is a number only when the upfront sensitivity is strictly
\* positive; when the upfront payment is absent, has occurred, or the
\* sensitivity is zero or negative, fairUpfront is the Null sentinel.
C8_FairUpfront ==
    CdsPastSwitch =>
        /\ ~cdsResults.fairUpfront.null <=> CdsUpfrontSensitivity > 0
        /\ ~cdsResults.fairUpfront.null => cdsResults.fairUpfront.den > 0
        /\ ~cdsArgs.upfrontPayment.set => cdsResults.fairUpfront = NullReal
        /\ (cdsArgs.upfrontPayment.set
              /\ HasOccurred(cdsArgs.upfrontPayment.date, cdsArgs))
              => cdsResults.fairUpfront = NullReal

\* an upfront payment still to come and a negative notional
C8_Witness ==
    /\ cdsStatus = "done"
    /\ cdsArgs.upfrontPayment.set
    /\ ~HasOccurred(cdsArgs.upfrontPayment.date, cdsArgs)
    /\ CdsUpfrontSensitivity < 0
    /\ cdsResults.fairUpfront = NullReal
    /\ CdsNum("defaultLegNPV") + CdsNum("couponLegNPV") # 0

\* C9: if calculate fails part-way, the results structure handed to it
\* holds no partially accumulated couponLegNPV, defaultLegNPV, upfrontNPV or
\* accrual rebate of the aborted valuation.
C9_NoPartialResults ==
    cdsStatus = "failed" =>
        /\ cdsResults.couponLegNPV = NullReal
        /\ cdsResults.defaultLegNPV = NullReal
        /\ cdsResults.upfrontNPV = NullReal
        /\ cdsResults.accrualRebateNPV = NullReal
        /\ cdsResults.accrualRebateNPVCurrent = NullReal

\* the loop over the leg ran to its end (line 159)
CdsPastLoop == cdsStatus # "reset" /\ cdsRaw.error = ""

\* the cash flows of the leg that have not occurred at the settlement date
CdsLive == {i \in 1 .. Len(cdsArgs.leg) : ~HasOccurred(cdsArgs.leg[i].date, cdsArgs)}

\* the sum of f over the index set S
RECURSIVE SumOver(_, _)
SumOver(f, S) ==
    IF S = {} THEN 0
    ELSE LET i == CHOOSE j \in S : TRUE
         IN  f[i] + SumOver(f, S \ {i})

\* C12: the raw defaultLegNPV is the sum over the coupons that have not
\* occurred of expectedLoss * discount(protectionPaymentDate), where
\* expectedLoss is the claim amount nominal * (1 - recovery) times
\* defaultProbability(effectiveStart, end), and the default date is the
\* midpoint effectiveStart + (end - effectiveStart) / 2 of the period.  The
\* example of one period (1,000,000 at recovery 0.4, default probability
\* 0.02, discount 0.995, contribution 11,940) is stated in tenths,
\* hundredths and thousandths.
C12_DefaultLeg ==
    /\ CdsPastLoop =>
          LET a == cdsArgs
              es(i) == EffectiveStartDate(a, i)
              end(i) == a.leg[i].accrualEndDate
              term == [i \in CdsLive |->
                         a.leg[i].nominal * (1 - a.recoveryRate)
                           * (SurvivalProbability(es(i), a)
                                - SurvivalProbability(end(i), a))
                           * Discount(ProtectionPaymentDate(a, i))]
          IN  /\ cdsRaw.defaultLegNPV = SumOver(term, CdsLive)
              /\ \A i \in CdsLive :
                    /\ DefaultDate(a, i) = es(i) + HalfDays(end(i) - es(i))
                    /\ es(i) <= end(i) =>
                          /\ DefaultDate(a, i) - es(i) <= end(i) - DefaultDate(a, i)
                          /\ end(i) - DefaultDate(a, i) <= DefaultDate(a, i) - es(i) + 1
    /\ LET claimAmount == (1000000 * 6) \div 10
           expectLoss == (claimAmount * 2) \div 100
       IN  /\ claimAmount * 10 = 1000000 * 6
           /\ expectLoss * 100 = claimAmount * 2
           /\ expectLoss * 995 = 11940 * 1000

\* a valuation whose first coupon has occurred and whose second coupon
\* carries the default: nothing recovered, protection paid at the midpoint
C12_Witness ==
    /\ cdsStatus = "done"
    /\ Len(cdsArgs.leg) = MaxLeg
    /\ CdsLive = {MaxLeg}
    /\ cdsArgs.recoveryRate = 0
    /\ cdsArgs.protectionPaymentTime = "atDefault"
    /\ cdsRaw.defaultLegNPV =
          CouponNominal * Discount(DefaultDate(cdsArgs, MaxLeg))
    /\ cdsRaw.defaultLegNPV > 0

\* the live cash flows in the order of the leg
CdsLiveSeq == SelectSeq([i \in 1 .. Len(cdsArgs.leg) |-> i],
                        LAMBDA i : i \in CdsLive)

\* C13: the raw couponLegNPV is the sum over exactly the coupons that have
\* not occurred at the settlement date of survivalProbability(paymentDate) *
\* amount * discount(paymentDate), plus, only when settlesAccrual is set,
\* defaultProbability(effectiveStart, end) * accruedAmount(defaultDate) *
\* discount(protectionPaymentDate); a coupon that has occurred adds nothing
\* to a leg and no entry to a diagnostic vector.
C13_CouponLeg ==
    CdsPastLoop =>
       LET a == cdsArgs
           P(i) == SurvivalProbability(EffectiveStartDate(a, i), a)
                     - SurvivalProbability(a.leg[i].accrualEndDate, a)
           survival == [i \in CdsLive |->
                          SurvivalProbability(a.leg[i].date, a) * a.leg[i].amount
                            * Discount(a.leg[i].date)]
           accrual == [i \in CdsLive |->
                          P(i) * AccruedAmount(a.leg[i], DefaultDate(a, i))
                            * Discount(ProtectionPaymentDate(a, i))]
       IN  /\ cdsRaw.couponLegNPV =
                 SumOver(survival, CdsLive)
                   + (IF a.settlesAccrual THEN SumOver(accrual, CdsLive) ELSE 0)
           /\ cdsRaw.protectionPaymentDates =
                 [n \in 1 .. Len(CdsLiveSeq) |-> ProtectionPaymentDate(a, CdsLiveSeq[n])]
           /\ cdsRaw.midpointDiscounts =
                 [n \in 1 .. Len(CdsLiveSeq) |->
                     Discount(ProtectionPaymentDate(a, CdsLiveSeq[n]))]
           /\ cdsRaw.defaultProbabilities =
                 [n \in 1 .. Len(CdsLiveSeq) |-> P(CdsLiveSeq[n])]
           /\ Len(cdsRaw.expectedLosses) = Cardinality(CdsLive)

\* a valuation with accrual settlement whose first coupon has occurred: the
\* coupon leg is the accrual on default of the second coupon alone
C13_Witness ==
    /\ cdsStatus = "done"
    /\ cdsArgs.settlesAccrual
    /\ Len(cdsArgs.leg) = MaxLeg
    /\ CdsLive = {MaxLeg}
    /\ Len(cdsRaw.midpointDiscounts) = 1
    /\ SurvivalProbability(cdsArgs.leg[MaxLeg].date, cdsArgs) = 0
    /\ cdsRaw.couponLegNPV =
          AccruedAmount(cdsArgs.leg[MaxLeg], DefaultDate(cdsArgs, MaxLeg))
            * Discount(ProtectionPaymentDate(cdsArgs, MaxLeg))
    /\ cdsRaw.couponLegNPV > 0

\* C22: after a successful calculate the additional results
\* protectionPaymentDates, midpointDiscounts, expectedLosses and
\* defaultProbabilities all have the length of the number of coupons that
\* have not occurred, and the k-th entry of each belongs to the k-th such
\* coupon in the order of the leg.
C22_AuditVectors ==
    cdsStatus = "done" =>
       LET a == cdsArgs
           r == cdsResults.additionalResults
           n == Cardinality(CdsLive)
           P(i) == DefaultProbability(EffectiveStartDate(a, i),
                                      a.leg[i].accrualEndDate, a)
       IN  /\ Len(CdsLiveSeq) = n
           /\ Len(r.protectionPaymentDates) = n
           /\ Len(r.midpointDiscounts) = n
           /\ Len(r.expectedLosses) = n
           /\ Len(r.defaultProbabilities) = n
           /\ \A k \in 1 .. n :
                 LET i == CdsLiveSeq[k]
                 IN  /\ r.protectionPaymentDates[k] = ProtectionPaymentDate(a, i)
                     /\ r.midpointDiscounts[k] = Discount(ProtectionPaymentDate(a, i))
                     /\ r.expectedLosses[k] =
                           a.leg[i].nominal * (1 - a.recoveryRate) * P(i)
                     /\ r.defaultProbabilities[k] = P(i)

\* a successful valuation of a leg of MaxLeg coupons, all of them still to
\* come, with the protection paid at the end of each period
C22_Witness ==
    /\ cdsStatus = "done"
    /\ Len(cdsArgs.leg) = MaxLeg
    /\ Cardinality(CdsLive) = MaxLeg
    /\ cdsArgs.protectionPaymentTime = "atPeriodEnd"
    /\ Len(cdsResults.additionalResults.defaultProbabilities) = MaxLeg
    /\ cdsResults.additionalResults.protectionPaymentDates =
          [k \in 1 .. MaxLeg |-> k * Period]
    /\ \E k \in 1 .. MaxLeg : cdsResults.additionalResults.expectedLosses[k] > 0

\* C25: results.value is defaultLegNPV + couponLegNPV + upfrontNPV +
\* accrualRebateNPV of the same results (accrualRebateNPVCurrent is not part
\* of it), and the valuation of the same arguments with the other side has
\* the negated value.
C25_ValueAntisymmetry ==
    (cdsStatus = "done" /\ cdsArgs.side \in {"Buyer", "Seller"}) =>
        /\ cdsResults.value =
              Val(CdsNum("defaultLegNPV") + CdsNum("couponLegNPV")
                    + CdsNum("upfrontNPV") + CdsNum("accrualRebateNPV"))
        /\ \A o \in CalculateOutcomes(
                     [cdsArgs EXCEPT !.side = CdsOtherSide(cdsArgs.side)]) :
               /\ o.status = "done"
               /\ o.results.value = Val(-CdsNum("value"))

\* a buyer's valuation in which the four components and the value are not
\* zero and the two rebates differ
C25_Witness ==
    /\ cdsStatus = "done"
    /\ cdsArgs.side = "Buyer"
    /\ CdsNum("defaultLegNPV") > 0
    /\ CdsNum("couponLegNPV") < 0
    /\ CdsNum("upfrontNPV") < 0
    /\ CdsNum("accrualRebateNPV") > 0
    /\ CdsNum("accrualRebateNPVCurrent") # CdsNum("accrualRebateNPV")
    /\ CdsNum("value") # 0

\* what a Real holds: Null, a finite quotient, or the outcome of a
\* floating-point division by zero (the infinity of the numerator's sign,
\* not-a-number for 0 / 0)
RealKind(x) ==
    IF x.null THEN "Null"
    ELSE IF x.den # 0 THEN "finite"
    ELSE IF x.num > 0 THEN "+Inf"
    ELSE IF x.num < 0 THEN "-Inf" ELSE "NaN"

\* two Reals holding the same value
SameReal(x, y) ==
    /\ RealKind(x) = RealKind(y)
    /\ RealKind(x) = "finite" => x.num * y.den = y.num * x.den

\* C26: fairSpreadDirty, fairSpreadClean and fairUpfront, their Null-ness
\* included, are the same for the valuation as Buyer and the valuation of
\* the same arguments as Seller.
C26_FairQuotesSideIndependent ==
    (cdsStatus = "done" /\ cdsArgs.side \in {"Buyer", "Seller"}) =>
        \A o \in CalculateOutcomes(
                     [cdsArgs EXCEPT !.side = CdsOtherSide(cdsArgs.side)]) :
            /\ o.status = "done"
            /\ SameReal(o.results.fairSpreadDirty, cdsResults.fairSpreadDirty)
            /\ SameReal(o.results.fairSpreadClean, cdsResults.fairSpreadClean)
            /\ SameReal(o.results.fairUpfront, cdsResults.fairUpfront)

\* C24: when arguments.upfrontPayment is absent, a call that no requirement
\* stops completes successfully with upfrontNPV = 0 and fairUpfront =
\* Null, and the absent payment is never dereferenced.
C24_NoUpfrontPayment ==
    (cdsStatus \notin {"reset", "failed"} /\ ~cdsArgs.upfrontPayment.set) =>
       /\ cdsStatus = "done"
       /\ cdsResults.upfrontNPV = Val(0)
       /\ cdsResults.fairUpfront = NullReal

(***************************************************************************)
(* Claims on the cache of the exact discretization                         *)
(***************************************************************************)
CacheIsQuery == cacheOp[1] \in CacheKinds

\* C10: two queries hit the same cache entry if and only if both t0 and dt
\* are equal; a second drift / diffusion / covariance query with an
\* identical (t0, dt) made before any flushCache() returns the value the
\* first query stored, without recomputing.
C10_CacheKeyedByStep ==
    /\ CacheIsQuery =>
          /\ cacheHit <=> cacheWasSeen
          /\ cacheWasSeen => <<cacheOp[1], cacheOp[2], cacheResult>> \in cacheFirst
    /\ \A kind \in CacheKinds :
          /\ \A e1, e2 \in cache[kind] : e1.key = e2.key => e1 = e2
          /\ {e.key : e \in cache[kind]} = {s[2] : s \in {x \in cacheSeen : x[1] = kind}}
    /\ \A f1, f2 \in cacheFirst : (f1[1] = f2[1] /\ f1[2] = f2[2]) => f1 = f2

\* a repeated query answered from the cache after the parametrization has
\* changed, with another step of the same t0 cached beside it
C10_Witness ==
    /\ CacheIsQuery
    /\ cacheHit
    /\ cacheResult = ComputeExact(cacheOp[1], "calibration A", cacheOp[2])
    /\ parametrization = "calibration B"
    /\ \E e \in cache[cacheOp[1]] :
          e.key.t0 = cacheOp[2].t0 /\ e.key.dt # cacheOp[2].dt

\* C11: a change of the parametrization removes and updates no cache entry,
\* so a query for a step cached before the change, made without a
\* flushCache() in between, returns the value stored before the change;
\* flushCache() leaves the three caches empty, and a query of a step not
\* asked for since the last flushCache() is computed from the parametrization
\* current at the query.
C11_StaleUntilFlush ==
    [][/\ parametrization' # parametrization => cache' = cache
       /\ cacheOp'[1] \in CacheKinds =>
              LET found == CacheFind(cache[cacheOp'[1]], cacheOp'[2])
              IN  IF found # {}
                  THEN /\ \E e \in found : cacheResult' = e.value
                       /\ cache' = cache
                  ELSE cacheResult' =
                           ComputeExact(cacheOp'[1], parametrization', cacheOp'[2])
       /\ cacheOp' = <<"flushCache">> =>
              \A kind \in CacheKinds : cache'[kind] = {}
       /\ (cacheOp'[1] \in CacheKinds /\ <<cacheOp'[1], cacheOp'[2]>> \notin cacheSeen) =>
              cacheResult' = ComputeExact(cacheOp'[1], parametrization', cacheOp'[2])
      ]_vars

\* the first query after a flushCache() that followed a query answered with
\* the value of the earlier parametrization: it is computed from the new one
C11_Witness ==
    /\ CacheIsQuery
    /\ cacheStale = "flushed"
    /\ ~cacheHit
    /\ cacheSeen = {<<cacheOp[1], cacheOp[2]>>}
    /\ parametrization = "calibration B"
    /\ cacheResult = ComputeExact(cacheOp[1], "calibration B", cacheOp[2])

(***************************************************************************)
(* Claims on SimmConfiguration_ISDA_V2_3_8::group                          *)
(***************************************************************************)
\* the groups of the map that contain the qualifier
SimmContaining(qualifier, groups) ==
    {g \in DOMAIN groups : qualifier \in groups[g]}

\* C19: group(qualifier, groups) returns the index of the one group that
\* contains the qualifier; it fails when no group contains the qualifier and
\* when more than one does; in the currency groups of the configuration
\* every currency is in exactly one group.
C19_GroupLookup ==
    /\ simmResult.status # "none" =>
          LET containing == SimmContaining(simmQualifier, simmGroups)
          IN  /\ simmResult.status = "found" <=> Cardinality(containing) = 1
              /\ simmResult.status = "found" => containing = {simmResult.index}
              /\ (containing = {} \/ Cardinality(containing) > 1) =>
                    simmResult.status = "failed"
    /\ \A c \in SimmCurrencies : Cardinality(SimmContaining(c, CcyGroups)) = 1
    /\ (simmResult.status # "none" /\ simmGroups = CcyGroups) =>
          simmResult.status = "found"

\* a lookup that failed because two groups contain the qualifier
C19_Witness ==
    /\ simmResult.status = "failed"
    /\ Cardinality(SimmContaining(simmQualifier, simmGroups)) > 1

(***************************************************************************)
(* Claims on CommodityFutureConvention::build                              *)
(***************************************************************************)
\* no entry has From > To, and the To values are strictly increasing in
\* ascending order of From
MappingWellFormed(mp) ==
    /\ \A from \in DOMAIN mp : from <= mp[from]
    /\ \A j, k \in DOMAIN mp : j < k => mp[j] < mp[k]

\* C20: build() fails on its continuation mappings if and only if the
\* future or the option mapping has an entry with From > To or has To
\* values that are not strictly increasing in ascending order of From;
\* every mapping that satisfies both conditions is accepted.  Stated for
\* conventions that do not name their own index as off-peak or peak index.
C20_ContinuationMappings ==
    (convStatus # "none" /\ convInput.offPeakPowerIndexData # "own index") =>
       (convStatus = "failed" <=>
           ~(/\ MappingWellFormed(convInput.futureContinuationMappings)
             /\ MappingWellFormed(convInput.optionContinuationMappings)))

\* the mapping is well formed and none of its To values is 0
MappingAccepted(mp) ==
    /\ MappingWellFormed(mp)
    /\ \A from \in DOMAIN mp : mp[from] >= 1

\* C20 as it holds: build() fails on its continuation mappings if and only
\* if the future or the option mapping has an entry with From > To, has To
\* values that are not strictly increasing in ascending order of From, or
\* has a To value of 0 (the comparison of the first entry is against 0).
C20_ContinuationMappingsAboveZero ==
    (convStatus # "none" /\ convInput.offPeakPowerIndexData # "own index") =>
       /\ convStatus = "failed" <=>
              ~(/\ MappingAccepted(convInput.futureContinuationMappings)
                /\ MappingAccepted(convInput.optionContinuationMappings))
       /\ (convStatus = "failed"
              /\ MappingAccepted(convInput.futureContinuationMappings)) =>
              convError[1] = "option"

\* a convention built with a future mapping of two entries and an option
\* mapping of one entry
C20_Witness ==
    /\ convStatus = "built"
    /\ Cardinality(DOMAIN convInput.futureContinuationMappings) = 2
    /\ Cardinality(DOMAIN convInput.optionContinuationMappings) = 1
    /\ MappingWellFormed(convInput.futureContinuationMappings)
    /\ MappingWellFormed(convInput.optionContinuationMappings)

(***************************************************************************)
(* Claims on the Conventions container                                     *)
(***************************************************************************)
\* C27: after any sequence of add, clear and fromXML calls every stored
\* convention is stored under its own id() and no two stored conventions
\* share an id; add of a convention whose id is already present fails and
\* leaves the container, the convention stored under that id included,
\* unchanged.
C27_KeyInvariant ==
    /\ \A k \in DOMAIN conventionsData : conventionsData[k].id = k
    /\ \A k1, k2 \in DOMAIN conventionsData :
          conventionsData[k1].id = conventionsData[k2].id => k1 = k2
    /\ (conventionsCall.op = "add"
          /\ Has(conventionsCall.before, conventionsCall.convention.id)) =>
             /\ conventionsCall.thrown # ""
             /\ conventionsData = conventionsCall.before

\* an add that failed on a container of two conventions, the convention
\* given being another one than the one stored under its id
C27_Witness ==
    /\ conventionsCall.op = "add"
    /\ conventionsCall.thrown # ""
    /\ Cardinality(DOMAIN conventionsData) = 2
    /\ conventionsData[conventionsCall.convention.id] # conventionsCall.convention
    /\ \E k \in DOMAIN conventionsData : conventionsData[k].localId # k

\* a child for which a convention is made and whose Id can be read
NodeHasId(node) == node.name \in RecognisedNames /\ node.hasId

\* the id() of the convention a node with an Id is read into
NodeKey(node) == ConventionOf(node).id

\* C21: Conventions::fromXML isolates failures: a node whose fromXML/build
\* fails is not added (has(id) is false for it afterwards unless the id was
\* present before or is the id of another node of the document), the
\* failure does not propagate out of Conventions::fromXML, and every other
\* valid node of the document that does not depend on the failed one is
\* present afterwards.
C21_FromXMLIsolatesFailures ==
    conventionsCall.op = "fromXML" =>
        LET doc == conventionsCall.doc
            before == conventionsCall.before
        IN  /\ conventionsCall.thrown = ""
            /\ \A k \in DOMAIN doc :
                  (NodeHasId(doc[k]) /\ ~doc[k].valid
                     /\ Has(conventionsData, NodeKey(doc[k]))) =>
                        \/ Has(before, NodeKey(doc[k]))
                        \/ \E j \in DOMAIN doc \ {k} :
                              /\ NodeHasId(doc[j])
                              /\ NodeKey(doc[j]) = NodeKey(doc[k])
            /\ \A k \in DOMAIN doc :
                  (doc[k].name = "IborIndex" /\ doc[k].hasId /\ doc[k].valid) =>
                        Has(conventionsData, NodeKey(doc[k]))

\* the node with an Id fails by itself: its own fromXML fails, or it is a
\* Swap whose index convention is neither in the container before the call
\* nor the id of a node of the document
NodeFails(doc, before, k) ==
    \/ ~doc[k].valid
    \/ /\ doc[k].name = "Swap"
       /\ ~HasType(before, doc[k].index, "IborIndex")
       /\ \A j \in DOMAIN doc :
             ~(NodeHasId(doc[j]) /\ NodeKey(doc[j]) = doc[k].index)

\* the node with an Id is valid whatever the other nodes are
NodeStandsAlone(before, node) ==
    /\ node.valid
    /\ node.name = "Swap" => HasType(before, node.index, "IborIndex")

\* The failures of the nodes that have an Id child are isolated.  When every child a convention is made for has an Id, no
\* exception leaves Conventions::fromXML; a node with an Id that fails is
\* not added (has(id) is false afterwards unless the id was present before
\* the call or is the id of another node of the document, earlier or
\* later); a valid node that does not depend on other nodes is present
\* afterwards unless a child without an Id comes before it.
IsolatesNodesWithId ==
    conventionsCall.op = "fromXML" =>
        LET doc == conventionsCall.doc
            before == conventionsCall.before
        IN  /\ (\A k \in DOMAIN doc :
                   doc[k].name \in RecognisedNames => doc[k].hasId)
                  => conventionsCall.thrown = ""
            /\ \A k \in DOMAIN doc :
                  (NodeHasId(doc[k]) /\ NodeFails(doc, before, k)
                     /\ Has(conventionsData, NodeKey(doc[k]))) =>
                        \/ Has(before, NodeKey(doc[k]))
                        \/ \E j \in DOMAIN doc \ {k} :
                              /\ NodeHasId(doc[j])
                              /\ NodeKey(doc[j]) = NodeKey(doc[k])
            /\ \A k \in DOMAIN doc :
                  (/\ NodeHasId(doc[k])
                   /\ NodeStandsAlone(before, doc[k])
                   /\ \A j \in 1 .. k - 1 :
                         doc[j].name \in RecognisedNames => doc[j].hasId) =>
                        Has(conventionsData, NodeKey(doc[k]))

\* a document of a node that fails and a valid node of another id, read
\* into a container that has neither: the call returns, the first is absent
\* and the second present
IsolatesNodesWithIdWitness ==
    /\ conventionsCall.op = "fromXML"
    /\ conventionsCall.thrown = ""
    /\ Len(conventionsCall.doc) = 2
    /\ NodeHasId(conventionsCall.doc[1]) /\ ~conventionsCall.doc[1].valid
    /\ NodeHasId(conventionsCall.doc[2]) /\ conventionsCall.doc[2].valid
    /\ NodeKey(conventionsCall.doc[1]) # NodeKey(conventionsCall.doc[2])
    /\ ~Has(conventionsCall.before, NodeKey(conventionsCall.doc[2]))
    /\ ~Has(conventionsData, NodeKey(conventionsCall.doc[1]))
    /\ Has(conventionsData, NodeKey(conventionsCall.doc[2]))

(***************************************************************************)
(* Claims on InflationSwapConvention                                       *)
(***************************************************************************)
\* C28: for a convention whose publicationRoll is not None, reading back
\* with fromXML the node that toXML produced gives a convention with the
\* same publicationRoll and the same publication schedule data.
C28_PublicationRollRoundTrip ==
    (infStatus \in {"read", "failed"} /\ infNode # NoNode
       /\ infConvention.publicationRoll # "PublicationRoll::None") =>
          /\ infStatus = "read"
          /\ infRead.publicationRoll = infConvention.publicationRoll
          /\ infRead.publicationScheduleData = infConvention.publicationScheduleData

(***************************************************************************)
(* Claims on CommodityFutureConvention::ProhibitedExpiry                   *)
(***************************************************************************)
\* C29: a ProhibitedExpiry built with the constructor taking (expiry,
\* forFuture, futureBdc, forOption, optionBdc) reports exactly those five
\* values through its inspectors, for every combination of values.
C29_ProhibitedExpiryConstruction ==
    expiryStatus = "constructed" =>
        ProhibitedExpiryInspectors(expiryObject) = expiryArgs

(***************************************************************************)
(* Claims on ScenarioSimMarketParameters                                   *)
(***************************************************************************)
\* C30: zeroInflationIndices() returns the names registered for the key
\* type of the zero inflation curves, those given to
\* setZeroInflationIndices, as cpiIndices() and yoyInflationIndices() return
\* the names of their key types, and what it returns does not change when
\* only the FX volatility names are set.
C30_ZeroInflationLookup ==
    /\ CpiIndices(params_) = params_["CPIIndex"]
    /\ YoyInflationIndices(params_) = params_["YoYInflationCurve"]
    /\ ZeroInflationIndices(params_) = params_["ZeroInflationCurve"]
    /\ paramsCall.name = "setZeroInflationIndices" =>
          paramsCall.names \subseteq ZeroInflationIndices(params_)
    /\ paramsCall.name = "setFxVolCcyPairs" =>
          ZeroInflationIndices(params_) = paramsBefore.zeroInflationIndices

=============================================================================
